---- MODULE Spec2Model ----
(***************************************************************************)
(* Model of the ordered-tree experiments of the repository:                *)
(*   - AVL<A>   (src/_sandbox/avl_tree/src/main.rs), the height-balanced   *)
(*     tree with insert / delete / rotations / balance;                    *)
(*   - Tree<A>  (src/_sandbox/avl_tree/src/AVL_rc.rs), the unbalanced      *)
(*     variant whose delete reports whether the value was found;           *)
(*   - AVLView  (main.rs), the cursor with a stack of ancestors;           *)
(*   - TreeBox<A> and Tree<A> (src/_sandbox/persistent_data/src/main.rs),  *)
(*     the Box-owned and the Rc-shared unbalanced search tree.             *)
(* A tree value is the tuple <<>> (Leaf) or <<left, value, right, height>> *)
(* (Node); the unbalanced Tree uses <<left, value, right>>.                *)
(* Operations that can panic return a record [t, at]: t is the content of  *)
(* the place `*self` when the operation stops, at is "" on normal return   *)
(* and the name of the failed assertion / panic! otherwise.                *)
(***************************************************************************)
EXTENDS Integers, Sequences, FiniteSets, TLC

\* ---------------------------------------------------------------- bounds
\* values handed to AVL::insert / AVL::delete are 0 .. NumVals-1
NumVals == 9
\* values handed to Tree::insert / Tree::delete are 0 .. NumTreeVals-1
NumTreeVals == 5
\* values handed to AVL::delete while a pre-built tree is drained
NumDrainVals == 12
\* values handed to TreeBox::insert / Tree::insert of persistent_data
NumPdVals == 4
\* values stored in a node that a single AVL method is called on
NumFnVals == 7
\* the Uuids that Uuid::new_v4() can return are 1 .. NumKeys
NumKeys == 3

\* the arguments handed to the Fibonacci functions are 0 .. NumFibArgs
NumFibArgs == 6

\* the heap holds at most MaxCells ListElem cells
MaxCells == 7

Vals == 0 .. (NumVals - 1)
TreeVals == 0 .. (NumTreeVals - 1)
DrainVals == 0 .. (NumDrainVals - 1)
PdVals == 0 .. (NumPdVals - 1)
FnVals == 0 .. (NumFnVals - 1)
Keys == 1 .. NumKeys

VARIABLES
    tree,       \* the AVL<i32> owned by the caller
    panicked,   \* "" or the site of the panic that stopped the program
    lastOp,     \* the last call made on tree: [op, v]
    prev,       \* the value of tree before the last call
    stored,     \* ghost: the values inserted and not since deleted
    rc_tree,    \* the Tree<i32> of AVL_rc.rs
    rc_panicked,\* "" or the site of the failed assert!(is_tree())
    rc_ret,     \* what the last Tree::delete returned
    rc_lastOp,  \* the last call made on rc_tree
    rc_prev,    \* the value of rc_tree before the last call
    rc_stored,  \* ghost: the values inserted into rc_tree and not since deleted
    view,       \* the AVLView borrowing tree: [tree, stack]
    view_op,    \* the last call made on view
    view_ret,   \* the bool that call returned
    view_prev,  \* the value of view before that call
    lview,      \* the AVLListView borrowing tree, given the same calls
    lview_ret,  \* the bool the last call on lview returned
    pd_box,     \* the TreeBox<i32> of persistent_data
    pd_rc,      \* the Tree<i32> of persistent_data (Rc children)
    pd_clone,   \* the clone taken of pd_rc (`_clone` in main)
    pd_set,     \* ghost: the values inserted and not since removed
    pd_op,      \* the last call made on both trees: [op, v]
    pd_res,     \* what the last remove_smallest returned: [box, rc]
    pd_prev,    \* ghost: pd_set before the last call
    fn_in,      \* the node a single AVL method is called on
    fn_op,      \* "" or the method that was called on fn_in
    fn_out,     \* the outcome of that call
    graph,      \* the Graph<Task>: key -> [data, incoming, outgoing]
    issued,     \* ghost: the Uuids in use (returned by add_node or named by
                \* a caller); Uuid::new_v4() returns none of them again
    graph_op,   \* the last call made on graph: [op, a, b]
    graph_panicked, \* "" or the message of the expect that failed
    gv,         \* the GraphView on graph: [start_times, end_times]
    gv2,        \* the GraphView2 on graph: [start_times, end_times]
    gv_q,       \* the last query on a view: [view, fn, key, res, at]
    fm_cache,   \* the HashMap handed to fib_memo
    mz_cache,   \* the HashMap handed to memoize(.., fib_memo2, ..)
    hc_data,    \* the data of the HashCache built from fib_open
    memo_op,    \* the last call: [fn, arg]
    memo_res,   \* what it returned
    memo_log,   \* the cache.insert calls it made, in order: <<key, value>>
    elems,      \* the heap of ListElem cells: address -> [kind, prev, data, next]
    list,       \* the List: [head, current, tail] (addresses)
    kept,       \* the Lists that split_* returned and the caller still owns
    list_op,    \* the last call made on list: [op, v], with the kind (on) and the
                \* address (cur) of the element the cursor was on
    list_panicked, \* "" or the site of the panic that stopped the program
    debug       \* whether the build checks debug_assert!

avl_vars == <<tree, panicked, lastOp, prev, stored>>
rc_vars == <<rc_tree, rc_panicked, rc_ret, rc_lastOp, rc_prev, rc_stored>>
view_vars == <<view, view_op, view_ret, view_prev, lview, lview_ret>>
pd_vars == <<pd_box, pd_rc, pd_clone, pd_set, pd_op, pd_res, pd_prev>>
fn_vars == <<fn_in, fn_op, fn_out>>
graph_vars == <<graph, issued, graph_op, graph_panicked, gv, gv2, gv_q>>
memo_vars == <<fm_cache, mz_cache, hc_data, memo_op, memo_res, memo_log>>
list_vars == <<elems, list, kept, list_op, list_panicked, debug>>
vars == <<tree, panicked, lastOp, prev, stored,
          rc_tree, rc_panicked, rc_ret, rc_lastOp, rc_prev, rc_stored,
          view, view_op, view_ret, view_prev, lview, lview_ret,
          pd_box, pd_rc, pd_clone, pd_set, pd_op, pd_res, pd_prev,
          fn_in, fn_op, fn_out,
          graph, issued, graph_op, graph_panicked, gv, gv2, gv_q,
          fm_cache, mz_cache, hc_data, memo_op, memo_res, memo_log,
          elems, list, kept, list_op, list_panicked, debug>>

\* ------------------------------------------------------------- utilities
max(a, b) == IF a >= b THEN a ELSE b
abs(a) == IF a < 0 THEN -a ELSE a
None == <<>>
Some(x) == <<x>>
Ok(t) == [t |-> t, at |-> ""]
Panic(t, site) == [t |-> t, at |-> site]

\* ------------------------------------------------------ AVL (main.rs)
Leaf == <<>>

AvlNew == Leaf

height(t) == IF t = Leaf THEN 0 ELSE t[4]

\* mutant of node: the two children are passed in the wrong order
node_swapped(left, value, right) ==
    <<right, value, left, max(height(left), height(right)) + 1>>

node(left, value, right) ==
    <<left, value, right, max(height(left), height(right)) + 1>>

singleton(value) == node(Leaf, value, Leaf)

is_avl(t) ==
    IF t = Leaf THEN TRUE
    ELSE LET correct_height == max(height(t[1]), height(t[3])) + 1 = t[4]
             is_balanced == abs(height(t[1]) - height(t[3])) <= 1
         IN  correct_height /\ is_balanced

RECURSIVE get_leftmost(_)
get_leftmost(t) ==
    IF t = Leaf THEN None
    ELSE LET leftmost == get_leftmost(t[1])
         IN  IF leftmost # None THEN leftmost ELSE Some(t[2])

RECURSIVE get_rightmost(_)
get_rightmost(t) ==
    IF t = Leaf THEN None
    ELSE LET rightmost == get_rightmost(t[3])
         IN  IF rightmost # None THEN rightmost ELSE Some(t[2])

\* mutant of for_each: func is called before the left subtree is walked
RECURSIVE for_each_preorder(_)
for_each_preorder(t) ==
    IF t = Leaf THEN <<>>
    ELSE <<t[2]>> \o for_each_preorder(t[1]) \o for_each_preorder(t[3])

RECURSIVE for_each(_)
for_each(t) ==
    IF t = Leaf THEN <<>>
    ELSE for_each(t[1]) \o <<t[2]>> \o for_each(t[3])

RECURSIVE is_avl_full(_)
is_avl_full(t) ==
    IF t = Leaf THEN TRUE
    ELSE LET correct_height == max(height(t[1]), height(t[3])) + 1 = t[4]
             is_balanced == abs(height(t[1]) - height(t[3])) <= 1
             l == get_rightmost(t[1])
             r == get_leftmost(t[3])
             is_sorted_left == IF l = None THEN TRUE ELSE l[1] < t[2]
             is_sorted_right == IF r = None THEN TRUE ELSE r[1] > t[2]
             children_are_avl == is_avl_full(t[1]) /\ is_avl_full(t[3])
         IN  correct_height /\ is_balanced /\ is_sorted_left
               /\ is_sorted_right /\ children_are_avl

\* mutant of get_balance: the cached height is written without the + 1
get_balance_no_plus_one(t) ==
    IF t = Leaf THEN [t |-> Leaf, balance |-> 0]
    ELSE [t |-> <<t[1], t[2], t[3], max(height(t[1]), height(t[3]))>>,
          balance |-> height(t[3]) - height(t[1])]

\* get_balance rewrites the cached height and returns right - left
get_balance(t) ==
    IF t = Leaf THEN [t |-> Leaf, balance |-> 0]
    ELSE [t |-> <<t[1], t[2], t[3], max(height(t[1]), height(t[3])) + 1>>,
          balance |-> height(t[3]) - height(t[1])]

\* mutant of rotate_left: left_val and right_val are used the wrong way round
rotate_left_keeps_values(self) ==
    IF self = Leaf THEN Panic(Leaf, "unwrap")
    ELSE IF self[3] = Leaf THEN Panic(Leaf, "unwrap")
    ELSE LET child == node(self[1], self[3][2], self[3][1])
             result == node(child, self[2], self[3][3])
         IN  IF ~is_avl(child) THEN Panic(Leaf, "rotate_left child")
             ELSE IF ~is_avl(result) THEN Panic(result, "rotate_left self")
             ELSE Ok(result)

rotate_left(self) ==
    IF self = Leaf THEN Panic(Leaf, "unwrap")
    ELSE LET left == self[1]
             left_val == self[2]
             node_child == self[3]
         IN  IF node_child = Leaf THEN Panic(Leaf, "unwrap")
             ELSE LET middle == node_child[1]
                      right_val == node_child[2]
                      right == node_child[3]
                      child == node(left, left_val, middle)
                      result == node(child, right_val, right)
                  IN  IF ~is_avl(child) THEN Panic(Leaf, "rotate_left child")
                      ELSE IF ~is_avl(result)
                           THEN Panic(result, "rotate_left self")
                           ELSE Ok(result)

rotate_right(self) ==
    IF self = Leaf THEN Panic(Leaf, "unwrap")
    ELSE LET node_child == self[1]
             right_val == self[2]
             right == self[3]
         IN  IF node_child = Leaf THEN Panic(Leaf, "unwrap")
             ELSE LET left == node_child[1]
                      left_val == node_child[2]
                      middle == node_child[3]
                      child == node(middle, right_val, right)
                      result == node(left, left_val, child)
                  IN  IF ~is_avl(child) THEN Panic(Leaf, "rotate_right child")
                      ELSE IF ~is_avl(result)
                           THEN Panic(result, "rotate_right self")
                           ELSE Ok(result)

\* `x.rotate_..(); assert!(x.is_avl())`: the assertion that follows a call whose
\* outcome is r
checked(r, site) ==
    IF r.at # "" THEN r
    ELSE IF ~is_avl(r.t) THEN Panic(r.t, site)
    ELSE r

\* the place of a node s after a call on its right / left child ended as r
with_right(s, r) == [t |-> <<s[1], s[2], r.t, s[4]>>, at |-> r.at]
with_left(s, r) == [t |-> <<r.t, s[2], s[3], s[4]>>, at |-> r.at]

\* balance, lines 230-233: the right child, its height rewritten by
\* get_balance (g), is rotated right when it is left-heavy
rotate_right_child(g) ==
    IF g.balance < 0 THEN checked(rotate_right(g.t), "balance right")
    ELSE Ok(g.t)

\* balance, lines 242-245: the left child is rotated left when right-heavy
rotate_left_child(g) ==
    IF g.balance > 0 THEN checked(rotate_left(g.t), "balance left")
    ELSE Ok(g.t)

\* balance, lines 238 and 252: self.rotate_left(); assert!(self.is_avl())
then_rotate_left(r) ==
    IF r.at # "" THEN r ELSE checked(rotate_left(r.t), "balance self")

\* balance, lines 250 and 252: self.rotate_right(); assert!(self.is_avl())
then_rotate_right(r) ==
    IF r.at # "" THEN r ELSE checked(rotate_right(r.t), "balance self")

\* the right-heavy branch of balance (balance > 1); s has its height rewritten
balance_right_heavy(s) ==
    IF s = Leaf THEN Panic(s, "no right child")
    ELSE then_rotate_left(with_right(s, rotate_right_child(get_balance(s[3]))))

\* the left-heavy branch of balance (reached when balance < -1)
balance_left_heavy(s) ==
    IF s = Leaf THEN Panic(s, "no left child")
    ELSE then_rotate_right(with_left(s, rotate_left_child(get_balance(s[1]))))

\* mutant of balance_of: the early return tests < 1 instead of <= 1
balance_of_eager(g) ==
    IF abs(g.balance) < 1 THEN Ok(g.t)
    ELSE IF g.balance > 1 THEN balance_right_heavy(g.t)
    ELSE IF g.balance < 1 THEN balance_left_heavy(g.t)
    ELSE checked(Ok(g.t), "balance self")

\* balance after get_balance returned g
balance_of(g) ==
    IF abs(g.balance) <= 1 THEN Ok(g.t)
    ELSE IF g.balance > 1 THEN balance_right_heavy(g.t)
    ELSE IF g.balance < 1 THEN balance_left_heavy(g.t)
    ELSE checked(Ok(g.t), "balance self")

balance(self) == balance_of(get_balance(self))

\* self.balance() at the end of a call whose body left r in *self
then_balance(r) == IF r.at # "" THEN r ELSE balance(r.t)

RECURSIVE insert(_, _)
insert(self, input) ==
    IF ~is_avl(self) THEN Panic(self, "insert")
    ELSE IF self = Leaf THEN balance(singleton(input))
    ELSE IF input < self[2]
         THEN then_balance(with_left(self, insert(self[1], input)))
    ELSE IF input > self[2]
         THEN then_balance(with_right(self, insert(self[3], input)))
    ELSE balance(self)

\* what remove_leftmost / remove_rightmost return: [t, at, res]
removed(b, res) == [t |-> b.t, at |-> b.at, res |-> res]

\* remove_leftmost on a Node, after left.remove_leftmost() ended as r
remove_leftmost_node(self, r) ==
    IF r.at # "" THEN [t |-> Leaf, at |-> r.at, res |-> None]
    ELSE IF r.res # None
         THEN removed(balance(node(r.t, self[2], self[3])), r.res)
         ELSE removed(balance(self[3]), Some(self[2]))

RECURSIVE remove_leftmost(_)
remove_leftmost(self) ==
    IF ~is_avl(self) THEN [t |-> self, at |-> "remove_leftmost", res |-> None]
    ELSE IF self = Leaf THEN removed(balance(AvlNew), None)
    ELSE remove_leftmost_node(self, remove_leftmost(self[1]))

\* remove_rightmost on a Node, after right.remove_rightmost() ended as r
remove_rightmost_node(self, r) ==
    IF r.at # "" THEN [t |-> Leaf, at |-> r.at, res |-> None]
    ELSE IF r.res # None
         THEN removed(balance(node(self[1], self[2], r.t)), r.res)
         ELSE removed(balance(self[1]), Some(self[2]))

RECURSIVE remove_rightmost(_)
remove_rightmost(self) ==
    IF ~is_avl(self) THEN [t |-> self, at |-> "remove_rightmost", res |-> None]
    ELSE IF self = Leaf THEN removed(balance(AvlNew), None)
    ELSE remove_rightmost_node(self, remove_rightmost(self[3]))

\* delete, lines 41-48: after the recursive call on a child ended as r, which
\* with_left / with_right put in the child's place of the moved-out node
delete_below(r) ==
    IF r.at # "" THEN Panic(AvlNew, r.at)
    ELSE balance(node(r.t[1], r.t[2], r.t[3]))

\* delete, lines 53-56: right had no leftmost; left.remove_rightmost() ended
\* as lm.  The result is *self before the final self.balance().
delete_promote_left(right, lm) ==
    IF lm.at # "" THEN Panic(AvlNew, lm.at)
    ELSE IF lm.res # None THEN Ok(node(lm.t, lm.res[1], right))
    ELSE Ok(AvlNew)

\* delete, lines 50-56: input == value; right.remove_leftmost() ended as rm.
\* The result is *self before the final self.balance().
delete_found(self, rm) ==
    IF rm.at # "" THEN Panic(AvlNew, rm.at)
    ELSE IF rm.res # None THEN Ok(node(self[1], rm.res[1], rm.t))
    ELSE delete_promote_left(rm.t, remove_rightmost(self[1]))

\* delete, lines 50-59: the found node is replaced, then self.balance()
delete_here(self, rm) == then_balance(delete_found(self, rm))

RECURSIVE delete(_, _)
delete(self, input) ==
    IF ~is_avl(self) THEN Panic(self, "delete")
    ELSE IF self = Leaf THEN balance(AvlNew)
    ELSE IF input < self[2]
         THEN delete_below(with_left(self, delete(self[1], input)))
    ELSE IF input > self[2]
         THEN delete_below(with_right(self, delete(self[3], input)))
    ELSE delete_here(self, remove_leftmost(self[3]))

\* ------------------------------------------------ AVLView (main.rs)
\* A `&AVL` that points into the borrowed tree is the path from the root of
\* that tree to the node: 1 steps to the left child and 3 to the right child
\* (their positions in the Node tuple).  Two references are the same node
\* exactly when their paths are equal.
Root == <<>>

RECURSIVE deref(_, _)
deref(root, ref) ==
    IF ref = <<>> THEN root ELSE deref(root[ref[1]], Tail(ref))

left_of(ref) == Append(ref, 1)
right_of(ref) == Append(ref, 3)

\* AVLView::new(&tree): the cursor is at the root and has no ancestors
AVLView_new == [tree |-> Root, stack |-> <<>>]

\* mutant of go_left: the child is pushed instead of the node that is left
go_left_pushes_child(root, self) ==
    IF deref(root, self.tree) = Leaf
    THEN [view |-> self, ret |-> FALSE]
    ELSE [view |-> [tree |-> left_of(self.tree),
                    stack |-> Append(self.stack, left_of(self.tree))],
          ret |-> TRUE]

go_left(root, self) ==
    IF deref(root, self.tree) = Leaf
    THEN [view |-> self, ret |-> FALSE]
    ELSE [view |-> [tree |-> left_of(self.tree),
                    stack |-> Append(self.stack, self.tree)],
          ret |-> TRUE]

\* mutant of go_right: the push happens before the match on the node
go_right_push_first(root, self) ==
    IF deref(root, self.tree) = Leaf
    THEN [view |-> [tree |-> self.tree,
                    stack |-> Append(self.stack, self.tree)],
          ret |-> FALSE]
    ELSE [view |-> [tree |-> right_of(self.tree),
                    stack |-> Append(self.stack, self.tree)],
          ret |-> TRUE]

go_right(root, self) ==
    IF deref(root, self.tree) = Leaf
    THEN [view |-> self, ret |-> FALSE]
    ELSE [view |-> [tree |-> right_of(self.tree),
                    stack |-> Append(self.stack, self.tree)],
          ret |-> TRUE]

\* Vec::pop gives None on an empty stack and leaves it empty
go_up(self) ==
    IF self.stack = <<>>
    THEN [view |-> self, ret |-> FALSE]
    ELSE [view |-> [tree |-> self.stack[Len(self.stack)],
                    stack |-> SubSeq(self.stack, 1, Len(self.stack) - 1)],
          ret |-> TRUE]

\* AVLView::value: the value under the cursor, None at a Leaf
AVLView_value(root, self) ==
    IF deref(root, self.tree) = Leaf
    THEN None
    ELSE Some(deref(root, self.tree)[2])

\* -------------------------------------------- AVLListView (main.rs)
\* The list of borrowed nodes, the current one first: Single(head) or
\* Cons(head, tail).
Single(head) == <<"Single", head>>
Cons(head, tail) == <<"Cons", head, tail>>

AVLListView_new(ref) == Single(ref)

head(self) == self[2]

uncons(self) ==
    IF self[1] = "Single" THEN None ELSE Some(<<self[2], self[3]>>)

\* mutant of push: the old list is dropped instead of becoming the tail
push_drops_tail(self, ref) == Single(ref)

\* push: mem::replace leaves Single(tree) in *self and gives the old list,
\* which becomes the tail of the Cons that is swapped into *self
push(self, ref) == Cons(ref, self)

\* pop returns [list, res]: the list left in *self and the Option returned
pop(self) ==
    IF uncons(self) = None
    THEN [list |-> AVLListView_new(head(self)), res |-> None]
    ELSE [list |-> uncons(self)[1][2], res |-> Some(uncons(self)[1][1])]

list_go_left(root, self) ==
    IF deref(root, head(self)) = Leaf
    THEN [list |-> self, ret |-> FALSE]
    ELSE [list |-> push(self, left_of(head(self))), ret |-> TRUE]

list_go_right(root, self) ==
    IF deref(root, head(self)) = Leaf
    THEN [list |-> self, ret |-> FALSE]
    ELSE [list |-> push(self, right_of(head(self))), ret |-> TRUE]

list_go_up(self) ==
    [list |-> pop(self).list, ret |-> pop(self).res # None]

AVLListView_value(root, self) ==
    IF deref(root, head(self)) = Leaf
    THEN None
    ELSE Some(deref(root, head(self))[2])

\* ------------------------------------------------- the AVL state machine
NoOp == [op |-> "new", v |-> 0]

RcInit ==
    /\ rc_tree = <<>>
    /\ rc_panicked = ""
    /\ rc_ret = FALSE
    /\ rc_lastOp = NoOp
    /\ rc_prev = <<>>
    /\ rc_stored = {}

AvlInit ==
    /\ tree = AvlNew
    /\ panicked = ""
    /\ lastOp = NoOp
    /\ prev = Leaf
    /\ stored = {}

\* a cursor that was just opened on tree and not moved yet
ViewInit ==
    /\ view = AVLView_new
    /\ view_op = "new"
    /\ view_ret = FALSE
    /\ view_prev = AVLView_new
    /\ lview = AVLListView_new(Root)
    /\ lview_ret = FALSE

\* TreeBox::new(), Tree::new() and a clone of the latter
PdInit ==
    /\ pd_box = <<>>
    /\ pd_rc = <<>>
    /\ pd_clone = <<>>
    /\ pd_set = {}
    /\ pd_op = NoOp
    /\ pd_res = [box |-> None, rc |-> None]
    /\ pd_prev = {}

\* no single method call is in progress
FnIdle ==
    /\ fn_in = Leaf
    /\ fn_op = ""
    /\ fn_out = Ok(Leaf)

\* Graph::new() with a GraphView and a GraphView2 opened on it
EmptyMap == [k \in {} |-> 0]

GraphInit ==
    /\ graph = EmptyMap
    /\ issued = {}
    /\ graph_op = [op |-> "new", a |-> 0, b |-> 0]
    /\ graph_panicked = ""
    /\ gv = [start_times |-> EmptyMap, end_times |-> EmptyMap]
    /\ gv2 = [start_times |-> EmptyMap, end_times |-> EmptyMap]
    /\ gv_q = [view |-> "", fn |-> "", key |-> 0, res |-> None, at |-> ""]

\* three HashMap::new() and no call made yet
MemoInit ==
    /\ fm_cache = EmptyMap
    /\ mz_cache = EmptyMap
    /\ hc_data = EmptyMap
    /\ memo_op = [fn |-> "", arg |-> 0]
    /\ memo_res = 0
    /\ memo_log = <<>>

\* A ListElem cell; prev is the address the Weak points to (0 for Weak::new(),
\* which upgrades to None), next the address the Rc points to.
TailCell(before) == [kind |-> "Tail", prev |-> before, data |-> 0, next |-> 0]
HeadCell(after) == [kind |-> "Head", prev |-> 0, data |-> 0, next |-> after]
NodeCell(before, data, after) ==
    [kind |-> "Node", prev |-> before, data |-> data, next |-> after]

\* Rc::new(..) puts the cell at the next address, Len(cells) + 1
new_tail(cells) == Append(cells, TailCell(0))

\* new_head as it would be with ListElem::connect(head, tail) (not what the
\* code does; with it the previous link of the tail is the head)
new_head_connected(cells, tail) ==
    Append([cells EXCEPT ![tail].prev = Len(cells) + 1], HeadCell(tail))

\* Elem::Head(tail), then head.set_next(tail): the previous link of the tail
\* is not touched
new_head(cells, tail) == Append(cells, HeadCell(tail))

\* List::new() on the heap cells: [cells, self]
List_new(cells) ==
    [cells |-> new_head(new_tail(cells), Len(cells) + 1),
     self |-> [head |-> Len(cells) + 2, current |-> Len(cells) + 2,
               tail |-> Len(cells) + 1]]

ListNew ==
    /\ elems = List_new(<<>>).cells
    /\ list = List_new(<<>>).self
    /\ kept = {}
    /\ list_op = [op |-> "new", v |-> 0, on |-> "", cur |-> 0]
    /\ list_panicked = ""

ListIdle == ListNew /\ debug = TRUE

OtherInit == GraphInit /\ MemoInit /\ ListIdle

Init == AvlInit /\ RcInit /\ ViewInit /\ PdInit /\ FnIdle /\ OtherInit

Insert(v) ==
    /\ panicked = ""
    /\ LET r == insert(tree, v)
       IN  /\ tree' = r.t
           /\ panicked' = r.at
    /\ lastOp' = [op |-> "insert", v |-> v]
    /\ prev' = tree
    /\ stored' = stored \cup {v}
    /\ UNCHANGED <<rc_vars, view_vars, pd_vars, fn_vars, graph_vars, memo_vars, list_vars>>

Delete(v) ==
    /\ panicked = ""
    /\ LET r == delete(tree, v)
       IN  /\ tree' = r.t
           /\ panicked' = r.at
    /\ lastOp' = [op |-> "delete", v |-> v]
    /\ prev' = tree
    /\ stored' = stored \ {v}
    /\ UNCHANGED <<rc_vars, view_vars, pd_vars, fn_vars, graph_vars, memo_vars, list_vars>>

Next ==
    \/ \E v \in Vals : Insert(v)
    \/ \E v \in Vals : Delete(v)

\* any finite sequence of insert and delete calls on a tree that starts empty
Spec == Init /\ [][Next]_vars

\* insert calls only, repetitions allowed
NextInsert == \E v \in Vals : Insert(v)

SpecInsert == Init /\ [][NextInsert]_vars

\* ---------------------------------------------- draining a pre-built tree
\* The test in_order_insertion and main build a tree by insert calls and then
\* delete from it.  Seeds are the insertion orders the drained trees are
\* built in, starting from AVL::new(): ascending as in the test, and one
\* breadth-first order that needs no rotation.
Seeds ==
    { <<0, 1, 2, 3, 4, 5, 6, 7, 8, 9, 10, 11>>,
      <<4, 1, 7, 0, 3, 6, 10, 2, 5, 8, 11, 9>> }

Range(s) == {s[i] : i \in 1 .. Len(s)}

RECURSIVE Build(_)
Build(s) ==
    IF s = <<>> THEN Ok(AvlNew)
    ELSE LET b == Build(SubSeq(s, 1, Len(s) - 1))
         IN  IF b.at # "" THEN b ELSE insert(b.t, s[Len(s)])

DrainInit ==
    /\ \E s \in Seeds :
          /\ tree = Build(s).t
          /\ panicked = Build(s).at
          /\ lastOp = [op |-> "insert", v |-> s[Len(s)]]
          /\ prev = Build(SubSeq(s, 1, Len(s) - 1)).t
          /\ stored = Range(s)
    /\ RcInit /\ ViewInit /\ PdInit /\ FnIdle /\ OtherInit

NextDrain == \E v \in DrainVals : Delete(v)

SpecDrain == DrainInit /\ [][NextDrain]_vars

\* ------------------------------------------------ moving a cursor
\* main builds a tree by insert calls from AVL::new() and opens a view on
\* it.  The trees walked are those built by every prefix of the Seeds, the
\* tree of main (0 .. MainCount-1 ascending) among them.
MainCount == 10

ViewSeeds == UNION {{SubSeq(s, 1, k) : k \in 0 .. Len(s)} : s \in Seeds}

ViewSpecInit ==
    /\ \E s \in ViewSeeds :
          /\ Build(s).at = ""
          /\ tree = Build(s).t
          /\ panicked = ""
          /\ lastOp = IF s = <<>> THEN NoOp
                                  ELSE [op |-> "insert", v |-> s[Len(s)]]
          /\ prev = IF s = <<>> THEN Leaf
                                ELSE Build(SubSeq(s, 1, Len(s) - 1)).t
          /\ stored = Range(s)
    /\ RcInit /\ ViewInit /\ PdInit /\ FnIdle /\ OtherInit

GoLeft ==
    /\ view' = go_left(tree, view).view
    /\ view_ret' = go_left(tree, view).ret
    /\ view_op' = "go_left"
    /\ view_prev' = view
    /\ lview' = list_go_left(tree, lview).list
    /\ lview_ret' = list_go_left(tree, lview).ret
    /\ UNCHANGED <<avl_vars, rc_vars, pd_vars, fn_vars, graph_vars, memo_vars, list_vars>>

GoRight ==
    /\ view' = go_right(tree, view).view
    /\ view_ret' = go_right(tree, view).ret
    /\ view_op' = "go_right"
    /\ view_prev' = view
    /\ lview' = list_go_right(tree, lview).list
    /\ lview_ret' = list_go_right(tree, lview).ret
    /\ UNCHANGED <<avl_vars, rc_vars, pd_vars, fn_vars, graph_vars, memo_vars, list_vars>>

GoUp ==
    /\ view' = go_up(view).view
    /\ view_ret' = go_up(view).ret
    /\ view_op' = "go_up"
    /\ view_prev' = view
    /\ lview' = list_go_up(lview).list
    /\ lview_ret' = list_go_up(lview).ret
    /\ UNCHANGED <<avl_vars, rc_vars, pd_vars, fn_vars, graph_vars, memo_vars, list_vars>>

NextView == GoLeft \/ GoRight \/ GoUp

SpecView == ViewSpecInit /\ [][NextView]_vars

\* --------------------------------------------- Tree (AVL_rc.rs), unbalanced
Tree_new == <<>>

Tree_singleton(value) == <<Tree_new, value, Tree_new>>

RECURSIVE Tree_insert(_, _)
Tree_insert(self, input) ==
    IF self = Tree_new THEN Tree_singleton(input)
    ELSE IF input < self[2] THEN <<Tree_insert(self[1], input), self[2], self[3]>>
    ELSE IF input > self[2] THEN <<self[1], self[2], Tree_insert(self[3], input)>>
    ELSE self

RECURSIVE Tree_get_leftmost(_)
Tree_get_leftmost(t) ==
    IF t = Tree_new THEN None
    ELSE LET leftmost == Tree_get_leftmost(t[1])
         IN  IF leftmost # None THEN leftmost ELSE Some(t[2])

RECURSIVE Tree_get_rightmost(_)
Tree_get_rightmost(t) ==
    IF t = Tree_new THEN None
    ELSE LET rightmost == Tree_get_rightmost(t[3])
         IN  IF rightmost # None THEN rightmost ELSE Some(t[2])

Tree_is_tree(t) ==
    IF t = Tree_new THEN TRUE
    ELSE LET l == Tree_get_rightmost(t[1])
             r == Tree_get_leftmost(t[3])
             is_sorted_left == IF l = None THEN TRUE ELSE l[1] < t[2]
             is_sorted_right == IF r = None THEN TRUE ELSE r[1] > t[2]
         IN  is_sorted_left /\ is_sorted_right

RECURSIVE Tree_is_tree_full(_)
Tree_is_tree_full(t) ==
    IF t = Tree_new THEN TRUE
    ELSE LET l == Tree_get_rightmost(t[1])
             r == Tree_get_leftmost(t[3])
             is_sorted_left == IF l = None THEN TRUE ELSE l[1] < t[2]
             is_sorted_right == IF r = None THEN TRUE ELSE r[1] > t[2]
             children_are_tree ==
                 Tree_is_tree_full(t[1]) /\ Tree_is_tree_full(t[3])
         IN  is_sorted_left /\ is_sorted_right /\ children_are_tree

\* mutant of Tree_remove_leftmost: the node that holds the leftmost value is
\* replaced by its left subtree instead of its right one
RECURSIVE Tree_remove_leftmost_drops_right(_)
Tree_remove_leftmost_drops_right(self) ==
    IF ~Tree_is_tree(self)
    THEN [t |-> self, at |-> "remove_leftmost", res |-> None]
    ELSE IF self = Tree_new THEN [t |-> Tree_new, at |-> "", res |-> None]
    ELSE LET r == Tree_remove_leftmost_drops_right(self[1])
         IN  IF r.at # "" THEN [t |-> Tree_new, at |-> r.at, res |-> None]
             ELSE IF r.res # None
                  THEN [t |-> <<r.t, self[2], self[3]>>, at |-> "", res |-> r.res]
                  ELSE [t |-> self[1], at |-> "", res |-> Some(self[2])]

\* Tree::remove_leftmost / remove_rightmost return [t, at, res]
RECURSIVE Tree_remove_leftmost(_)
Tree_remove_leftmost(self) ==
    IF ~Tree_is_tree(self)
    THEN [t |-> self, at |-> "remove_leftmost", res |-> None]
    ELSE IF self = Tree_new THEN [t |-> Tree_new, at |-> "", res |-> None]
    ELSE LET r == Tree_remove_leftmost(self[1])
         IN  IF r.at # "" THEN [t |-> Tree_new, at |-> r.at, res |-> None]
             ELSE IF r.res # None
                  THEN [t |-> <<r.t, self[2], self[3]>>, at |-> "", res |-> r.res]
                  ELSE [t |-> self[3], at |-> "", res |-> Some(self[2])]

RECURSIVE Tree_remove_rightmost(_)
Tree_remove_rightmost(self) ==
    IF ~Tree_is_tree(self)
    THEN [t |-> self, at |-> "remove_rightmost", res |-> None]
    ELSE IF self = Tree_new THEN [t |-> Tree_new, at |-> "", res |-> None]
    ELSE LET r == Tree_remove_rightmost(self[3])
         IN  IF r.at # "" THEN [t |-> Tree_new, at |-> r.at, res |-> None]
             ELSE IF r.res # None
                  THEN [t |-> <<self[1], self[2], r.t>>, at |-> "", res |-> r.res]
                  ELSE [t |-> self[1], at |-> "", res |-> Some(self[2])]

\* Tree::delete returns [t, at, ret]; ret is the bool the call returns
RECURSIVE Tree_delete(_, _)
Tree_delete(self, input) ==
    IF ~Tree_is_tree(self) THEN [t |-> self, at |-> "delete", ret |-> FALSE]
    ELSE IF self = Tree_new THEN [t |-> Tree_new, at |-> "", ret |-> FALSE]
    ELSE LET left == self[1]
             value == self[2]
             right == self[3]
         IN  IF input < value THEN
                 LET r == Tree_delete(left, input)
                 IN  IF r.at # "" THEN [t |-> Tree_new, at |-> r.at, ret |-> FALSE]
                     ELSE [t |-> <<r.t, value, right>>, at |-> "", ret |-> r.ret]
             ELSE IF input > value THEN
                 LET r == Tree_delete(right, input)
                 IN  IF r.at # "" THEN [t |-> Tree_new, at |-> r.at, ret |-> FALSE]
                     ELSE [t |-> <<left, value, r.t>>, at |-> "", ret |-> r.ret]
             ELSE
                 LET rm == Tree_remove_leftmost(right)
                 IN  IF rm.at # "" THEN [t |-> Tree_new, at |-> rm.at, ret |-> FALSE]
                     ELSE IF rm.res # None
                          THEN [t |-> <<left, rm.res[1], rm.t>>, at |-> "", ret |-> TRUE]
                     ELSE LET lm == Tree_remove_rightmost(left)
                          IN  IF lm.at # ""
                              THEN [t |-> Tree_new, at |-> lm.at, ret |-> FALSE]
                              ELSE IF lm.res # None
                              THEN [t |-> <<lm.t, lm.res[1], rm.t>>, at |-> "", ret |-> TRUE]
                              ELSE [t |-> Tree_new, at |-> "", ret |-> FALSE]

TreeInsert(v) ==
    /\ rc_panicked = ""
    /\ rc_tree' = Tree_insert(rc_tree, v)
    /\ rc_lastOp' = [op |-> "insert", v |-> v]
    /\ rc_prev' = rc_tree
    /\ rc_stored' = rc_stored \cup {v}
    /\ UNCHANGED <<rc_panicked, rc_ret>>
    /\ UNCHANGED <<avl_vars, view_vars, pd_vars, fn_vars, graph_vars, memo_vars, list_vars>>

TreeDelete(v) ==
    /\ rc_panicked = ""
    /\ LET r == Tree_delete(rc_tree, v)
       IN  /\ rc_tree' = r.t
           /\ rc_panicked' = r.at
           /\ rc_ret' = r.ret
    /\ rc_lastOp' = [op |-> "delete", v |-> v]
    /\ rc_prev' = rc_tree
    /\ rc_stored' = rc_stored \ {v}
    /\ UNCHANGED <<avl_vars, view_vars, pd_vars, fn_vars, graph_vars, memo_vars, list_vars>>

NextTree ==
    \/ \E v \in TreeVals : TreeInsert(v)
    \/ \E v \in TreeVals : TreeDelete(v)

SpecTree == Init /\ [][NextTree]_vars

\* ------------------------------------ one method call on one AVL node
\* balance and the rotations are private: they are called by insert, delete
\* and remove_* on a node whose subtrees are finished trees.  AvlTrees is
\* every tree of height h with the full AVL property whose values lie in
\* lo .. hi, built with AVL::node.
ChildHeights(h) ==
    {p \in {<<h - 1, h - 1>>, <<h - 1, h - 2>>, <<h - 2, h - 1>>} :
        p[1] >= 0 /\ p[2] >= 0}

RECURSIVE AvlTrees(_, _, _)
AvlTrees(lo, hi, h) ==
    IF h = 0 THEN {Leaf}
    ELSE IF hi - lo + 1 < h THEN {}
    ELSE UNION {UNION {{node(l, v, r) : l \in AvlTrees(lo, v - 1, p[1]),
                                       r \in AvlTrees(v + 1, hi, p[2])}
                       : p \in ChildHeights(h)}
                : v \in lo .. hi}

\* A node handed to balance: both subtrees have the full AVL property, their
\* heights differ by at most 2 (one insert or removal below an AVL node), and
\* the cached height is the right one or off by one.
FnInit ==
    /\ \/ fn_in = Leaf
       \/ \E v \in FnVals, hl \in 0 .. NumFnVals, hr \in 0 .. NumFnVals :
             /\ abs(hl - hr) <= 2
             /\ \E l \in AvlTrees(0, v - 1, hl),
                   r \in AvlTrees(v + 1, NumFnVals - 1, hr),
                   d \in {-1, 0, 1} :
                     /\ max(hl, hr) + 1 + d >= 1
                     /\ fn_in = <<l, v, r, max(hl, hr) + 1 + d>>
    /\ fn_op = ""
    /\ fn_out = Ok(Leaf)
    /\ AvlInit /\ RcInit /\ ViewInit /\ PdInit /\ OtherInit

\* self.balance()
CallBalance ==
    /\ fn_op = "" /\ fn_in # Leaf
    /\ fn_op' = "balance"
    /\ fn_out' = balance(fn_in)
    /\ UNCHANGED <<fn_in, avl_vars, rc_vars, view_vars, pd_vars, graph_vars, memo_vars, list_vars>>

\* balance calls rotate_left on a left child that is right-heavy (a finished
\* tree), and on self when self is right-heavy by 2 and its right child is
\* not left-heavy
CallRotateLeft ==
    /\ fn_op = "" /\ fn_in # Leaf
    /\ \/ is_avl_full(fn_in) /\ get_balance(fn_in).balance > 0
       \/ get_balance(fn_in).balance > 1
             /\ get_balance(fn_in[3]).balance >= 0
    /\ fn_op' = "rotate_left"
    /\ fn_out' = rotate_left(get_balance(fn_in).t)
    /\ UNCHANGED <<fn_in, avl_vars, rc_vars, view_vars, pd_vars, graph_vars, memo_vars, list_vars>>

\* balance calls rotate_right on a right child that is left-heavy (a
\* finished tree), and on self when self is left-heavy by 2 and its left
\* child is not right-heavy
CallRotateRight ==
    /\ fn_op = "" /\ fn_in # Leaf
    /\ \/ is_avl_full(fn_in) /\ get_balance(fn_in).balance < 0
       \/ get_balance(fn_in).balance < -1
             /\ get_balance(fn_in[1]).balance <= 0
    /\ fn_op' = "rotate_right"
    /\ fn_out' = rotate_right(get_balance(fn_in).t)
    /\ UNCHANGED <<fn_in, avl_vars, rc_vars, view_vars, pd_vars, graph_vars, memo_vars, list_vars>>

\* the public remove_leftmost / remove_rightmost, called on a whole tree
CallRemoveLeftmost ==
    /\ fn_op = "" /\ is_avl_full(fn_in)
    /\ fn_op' = "remove_leftmost"
    /\ fn_out' = remove_leftmost(fn_in)
    /\ UNCHANGED <<fn_in, avl_vars, rc_vars, view_vars, pd_vars, graph_vars, memo_vars, list_vars>>

CallRemoveRightmost ==
    /\ fn_op = "" /\ is_avl_full(fn_in)
    /\ fn_op' = "remove_rightmost"
    /\ fn_out' = remove_rightmost(fn_in)
    /\ UNCHANGED <<fn_in, avl_vars, rc_vars, view_vars, pd_vars, graph_vars, memo_vars, list_vars>>

NextFn ==
    \/ CallBalance
    \/ CallRotateLeft
    \/ CallRotateRight
    \/ CallRemoveLeftmost
    \/ CallRemoveRightmost

SpecFn == FnInit /\ [][NextFn]_vars

\* ------------------------- TreeBox and Tree (persistent_data/src/main.rs)
\* Both are unbalanced search trees <<left, value, right>>.  remove_smallest
\* returns [t, res]: the tree left in *self and the Option it returns.
TreeBox_new == <<>>

TreeBox_singleton(value) == <<TreeBox_new, value, TreeBox_new>>

RECURSIVE TreeBox_insert(_, _)
TreeBox_insert(self, input) ==
    IF self = <<>> THEN TreeBox_singleton(input)
    ELSE IF input < self[2]
         THEN <<TreeBox_insert(self[1], input), self[2], self[3]>>
    ELSE IF input > self[2]
         THEN <<self[1], self[2], TreeBox_insert(self[3], input)>>
    ELSE self

\* mutant of TreeBox_find: a larger element is looked up in the left subtree
RECURSIVE TreeBox_find_left_only(_, _)
TreeBox_find_left_only(self, elem) ==
    IF self = <<>> THEN FALSE
    ELSE IF elem < self[2] THEN TreeBox_find_left_only(self[1], elem)
    ELSE IF elem > self[2] THEN TreeBox_find_left_only(self[1], elem)
    ELSE TRUE

RECURSIVE TreeBox_find(_, _)
TreeBox_find(self, elem) ==
    IF self = <<>> THEN FALSE
    ELSE IF elem < self[2] THEN TreeBox_find(self[1], elem)
    ELSE IF elem > self[2] THEN TreeBox_find(self[3], elem)
    ELSE TRUE

\* the Node arm of remove_smallest, given what left.remove_smallest() did
TreeBox_removed(nd, lm) ==
    IF lm.res # None
    THEN [t |-> <<lm.t, nd[2], nd[3]>>, res |-> lm.res]
    ELSE [t |-> nd[3], res |-> Some(nd[2])]

RECURSIVE TreeBox_remove_smallest(_)
TreeBox_remove_smallest(self) ==
    IF self = <<>> THEN [t |-> TreeBox_new, res |-> None]
    ELSE TreeBox_removed(self, TreeBox_remove_smallest(self[1]))

\* Rc::make_mut gives unique access to a tree equal to the shared one: when
\* other Rc pointers exist it works on a fresh clone and they keep theirs.
make_mut(rc) == rc

RcTree_new == <<>>

RcTree_singleton(value) == <<RcTree_new, value, RcTree_new>>

RECURSIVE RcTree_insert(_, _)
RcTree_insert(self, input) ==
    IF self = <<>> THEN RcTree_singleton(input)
    ELSE IF input < self[2]
         THEN <<RcTree_insert(make_mut(self[1]), input), self[2], self[3]>>
    ELSE IF input > self[2]
         THEN <<self[1], self[2], RcTree_insert(make_mut(self[3]), input)>>
    ELSE self

RECURSIVE RcTree_find(_, _)
RcTree_find(self, elem) ==
    IF self = <<>> THEN FALSE
    ELSE IF elem < self[2] THEN RcTree_find(self[1], elem)
    ELSE IF elem > self[2] THEN RcTree_find(self[3], elem)
    ELSE TRUE

RcTree_removed(nd, lm) ==
    IF lm.res # None
    THEN [t |-> <<lm.t, nd[2], nd[3]>>, res |-> lm.res]
    ELSE [t |-> make_mut(nd[3]), res |-> Some(nd[2])]

RECURSIVE RcTree_remove_smallest(_)
RcTree_remove_smallest(self) ==
    IF self = <<>> THEN [t |-> RcTree_new, res |-> None]
    ELSE RcTree_removed(self, RcTree_remove_smallest(make_mut(self[1])))

\* the same call is made on the Box-owned and on the Rc-shared tree
PdInsert(v) ==
    /\ pd_box' = TreeBox_insert(pd_box, v)
    /\ pd_rc' = RcTree_insert(pd_rc, v)
    /\ pd_set' = pd_set \cup {v}
    /\ pd_op' = [op |-> "insert", v |-> v]
    /\ pd_prev' = pd_set
    /\ UNCHANGED <<pd_clone, pd_res>>
    /\ UNCHANGED <<avl_vars, rc_vars, view_vars, fn_vars, graph_vars, memo_vars, list_vars>>

\* let _clone = tree.clone(): the clone shares every node with the tree
PdClone ==
    /\ pd_clone' = pd_rc
    /\ pd_op' = [op |-> "clone", v |-> 0]
    /\ pd_prev' = pd_set
    /\ UNCHANGED <<pd_box, pd_rc, pd_set, pd_res>>
    /\ UNCHANGED <<avl_vars, rc_vars, view_vars, fn_vars, graph_vars, memo_vars, list_vars>>

PdRemoveSmallest ==
    /\ pd_box' = TreeBox_remove_smallest(pd_box).t
    /\ pd_rc' = RcTree_remove_smallest(pd_rc).t
    /\ pd_res' = [box |-> TreeBox_remove_smallest(pd_box).res,
                  rc |-> RcTree_remove_smallest(pd_rc).res]
    /\ pd_set' = pd_set \ {m \in pd_set : \A x \in pd_set : m <= x}
    /\ pd_op' = [op |-> "remove_smallest", v |-> 0]
    /\ pd_prev' = pd_set
    /\ UNCHANGED pd_clone
    /\ UNCHANGED <<avl_vars, rc_vars, view_vars, fn_vars, graph_vars, memo_vars, list_vars>>

NextPdInsert ==
    \/ \E v \in PdVals : PdInsert(v)
    \/ PdClone

\* insert calls on trees that start empty, with a clone taken at any time
SpecPdInsert == Init /\ [][NextPdInsert]_vars

NextPd ==
    \/ \E v \in PdVals : PdInsert(v)
    \/ PdClone
    \/ PdRemoveSmallest

SpecPd == Init /\ [][NextPd]_vars

\* ------------------------------------------------ Graph (graph_map/main.rs)
\* The HashMap<Uuid, GraphNode<T>> is a function whose domain is the set of
\* keys of the nodes in the graph.  A Task is its duration.
GraphNode_new(data) == [data |-> data, incoming |-> {}, outgoing |-> {}]

Graph_new == EmptyMap

\* HashMap::insert(key, v)
MapInsert(m, key, v) ==
    [k \in DOMAIN m \cup {key} |-> IF k = key THEN v ELSE m[k]]

\* HashMap::remove(key)
MapRemove(m, key) == [k \in DOMAIN m \ {key} |-> m[k]]

\* add_edge as it would be if the edge were recorded only when both nodes
\* exist (not what the code does; with it the adjacency stays closed)
add_edge_checked(self, start, end) ==
    IF start \in DOMAIN self /\ end \in DOMAIN self
    THEN [k \in DOMAIN self |->
            [self[k] EXCEPT
               !.outgoing = IF k = start THEN @ \cup {end} ELSE @,
               !.incoming = IF k = end THEN @ \cup {start} ELSE @]]
    ELSE self

\* get_mut(start).map(..) then get_mut(end).map(..): each half is done when
\* its own node exists, whether or not the other one does
add_edge(self, start, end) ==
    [k \in DOMAIN self |->
        [self[k] EXCEPT
           !.outgoing = IF k = start THEN @ \cup {end} ELSE @,
           !.incoming = IF k = end THEN @ \cup {start} ELSE @]]

remove_edge(self, start, end) ==
    [k \in DOMAIN self |->
        [self[k] EXCEPT
           !.outgoing = IF k = start THEN @ \ {end} ELSE @,
           !.incoming = IF k = end THEN @ \ {start} ELSE @]]

\* remove_node returns [g, at]; the node is taken out of the map first, then
\* its key is removed from the sets of the nodes it names that still exist
remove_node(self, node_id) ==
    IF node_id \notin DOMAIN self
    THEN [g |-> self, at |-> "remove_node: invalid key"]
    ELSE [g |-> [k \in DOMAIN self \ {node_id} |->
                   [self[k] EXCEPT
                      !.outgoing = IF k \in self[node_id].incoming
                                   THEN @ \ {node_id} ELSE @,
                      !.incoming = IF k \in self[node_id].outgoing
                                   THEN @ \ {node_id} ELSE @]],
          at |-> ""]

\* main and the test give the tasks the durations 1, 2, 4, 8, 16: the task
\* stored under the k-th key has duration 2^(k-1)
TaskDuration(key) == 2 ^ (key - 1)

\* add_node with the key that Uuid::new_v4() produced
add_node(self, key, data) == MapInsert(self, key, GraphNode_new(data))

\* a view borrows the graph: a call that changes the graph ends the borrow,
\* and the views used afterwards are new ones
ViewsNew ==
    /\ gv' = [start_times |-> EmptyMap, end_times |-> EmptyMap]
    /\ gv2' = [start_times |-> EmptyMap, end_times |-> EmptyMap]
    /\ gv_q' = [view |-> "", fn |-> "", key |-> 0, res |-> None, at |-> ""]

NotGraph ==
    <<avl_vars, rc_vars, view_vars, pd_vars, fn_vars, memo_vars, list_vars>>

\* Uuid::new_v4() returns a key that is not in use
AddNode(key) ==
    /\ graph_panicked = ""
    /\ key \notin issued
    /\ graph' = add_node(graph, key, TaskDuration(key))
    /\ issued' = issued \cup {key}
    /\ graph_op' = [op |-> "add_node", a |-> key, b |-> 0]
    /\ ViewsNew
    /\ UNCHANGED <<graph_panicked, NotGraph>>

AddEdge(start, end) ==
    /\ graph_panicked = ""
    /\ graph' = add_edge(graph, start, end)
    /\ graph_op' = [op |-> "add_edge", a |-> start, b |-> end]
    /\ issued' = issued \cup {start, end}
    /\ ViewsNew
    /\ UNCHANGED <<graph_panicked, NotGraph>>

RemoveEdge(start, end) ==
    /\ graph_panicked = ""
    /\ graph' = remove_edge(graph, start, end)
    /\ graph_op' = [op |-> "remove_edge", a |-> start, b |-> end]
    /\ issued' = issued \cup {start, end}
    /\ ViewsNew
    /\ UNCHANGED <<graph_panicked, NotGraph>>

RemoveNode(node_id) ==
    /\ graph_panicked = ""
    /\ graph' = remove_node(graph, node_id).g
    /\ graph_panicked' = remove_node(graph, node_id).at
    /\ graph_op' = [op |-> "remove_node", a |-> node_id, b |-> 0]
    /\ issued' = issued \cup {node_id}
    /\ ViewsNew
    /\ UNCHANGED NotGraph

NextGraph ==
    \/ \E key \in Keys : AddNode(key)
    \/ \E start \in Keys, end \in Keys : AddEdge(start, end)
    \/ \E start \in Keys, end \in Keys : RemoveEdge(start, end)
    \/ \E node_id \in Keys : RemoveNode(node_id)

\* any finite sequence of calls on a graph that starts empty
SpecGraph == Init /\ [][NextGraph]_vars

\* ---------------------------------------- GraphView (graph_map/main.rs 91-128)
\* A HashSet hands its keys out in an order of its own: ord is that order, a
\* permutation of the keys.
Orders == {ord \in [1 .. NumKeys -> Keys] : \A k \in Keys : \E i \in 1 .. NumKeys : ord[i] = k}

\* get_incoming(key).into_iter(): the keys of the set, in iteration order
IterOrder(set, ord) == SelectSeq(ord, LAMBDA k : k \in set)

\* end_time and start_time return [view, res, at]: the view with its memo
\* tables, the value returned and, when the call does not return, why.
\* active is the set of calls in progress: a call that finds itself in
\* progress repeats the same recursion for ever, and the stack overflows.
RECURSIVE gv_end_time(_, _, _, _, _)
RECURSIVE gv_start_time(_, _, _, _, _)
RECURSIVE gv_max(_, _, _, _, _, _)
RECURSIVE gv_max_next(_, _, _, _, _, _)

\* self.end_times.insert(key, result); result
gv_end_done(key, duration, s) ==
    IF s.at # "" THEN s
    ELSE [view |-> [s.view EXCEPT !.end_times = MapInsert(@, key, duration + s.res)],
          res |-> duration + s.res, at |-> ""]

\* self.start_times.insert(key, result); result
gv_start_done(key, m) ==
    IF m.at # "" THEN m
    ELSE [view |-> [m.view EXCEPT
                      !.start_times = MapInsert(@, key, IF m.res = None THEN 0 ELSE m.res[1])],
          res |-> IF m.res = None THEN 0 ELSE m.res[1], at |-> ""]

gv_end_time(g, self, key, ord, active) ==
    IF key \in DOMAIN self.end_times
    THEN [view |-> self, res |-> self.end_times[key], at |-> ""]
    ELSE IF key \notin DOMAIN g
    THEN [view |-> self, res |-> 0, at |-> "get: invalid key."]
    ELSE IF <<"end_time", key>> \in active
    THEN [view |-> self, res |-> 0, at |-> "stack overflow"]
    ELSE gv_end_done(key, g[key].data,
             gv_start_time(g, self, key, ord, active \cup {<<"end_time", key>>}))

gv_start_time(g, self, key, ord, active) ==
    IF key \in DOMAIN self.start_times
    THEN [view |-> self, res |-> self.start_times[key], at |-> ""]
    ELSE IF key \notin DOMAIN g
    THEN [view |-> self, res |-> 0, at |-> "get_incoming: invalid key."]
    ELSE IF <<"start_time", key>> \in active
    THEN [view |-> self, res |-> 0, at |-> "stack overflow"]
    ELSE gv_start_done(key,
             gv_max(g, self, IterOrder(g[key].incoming, ord), ord,
                    active \cup {<<"start_time", key>>}, None))

\* .map(|key_out| self.end_time(key_out)).max(): None for no element
gv_max(g, self, todo, ord, active, acc) ==
    IF todo = <<>> THEN [view |-> self, res |-> acc, at |-> ""]
    ELSE gv_max_next(g, Tail(todo), ord, active, acc,
                     gv_end_time(g, self, Head(todo), ord, active))

gv_max_next(g, rest, ord, active, acc, e) ==
    IF e.at # "" THEN e
    ELSE gv_max(g, e.view, rest, ord, active,
                IF acc = None THEN Some(e.res)
                ELSE IF e.res >= acc[1] THEN Some(e.res) ELSE acc)

\* --------------------------------------- GraphView2 (graph_map/main.rs 130-169)
RECURSIVE gv2_end_time(_, _, _, _)
RECURSIVE gv2_start_time(_, _, _, _)
RECURSIVE gv2_fold(_, _, _, _, _)
RECURSIVE gv2_fold_next(_, _, _, _, _)

\* self.start_time(key).map(|time| time + self.graph.get(key).duration), then
\* self.end_times.insert(key, result); result
gv2_end_done(g, key, s) ==
    IF s.at # "" THEN s
    ELSE IF s.res = None
    THEN [view |-> [s.view EXCEPT !.end_times = MapInsert(@, key, None)],
          res |-> None, at |-> ""]
    ELSE IF key \notin DOMAIN g
    THEN [view |-> s.view, res |-> None, at |-> "get: invalid key."]
    ELSE [view |-> [s.view EXCEPT
                      !.end_times = MapInsert(@, key, Some(s.res[1] + g[key].data))],
          res |-> Some(s.res[1] + g[key].data), at |-> ""]

\* self.start_times.insert(key, result); result
gv2_start_done(key, f) ==
    IF f.at # "" THEN f
    ELSE [view |-> [f.view EXCEPT !.start_times = MapInsert(@, key, f.res)],
          res |-> f.res, at |-> ""]

\* the None put in end_times before the recursion is what a call finds when
\* it comes back to a key whose computation is in progress
gv2_end_time(g, self, key, ord) ==
    IF key \in DOMAIN self.end_times
    THEN [view |-> self, res |-> self.end_times[key], at |-> ""]
    ELSE gv2_end_done(g, key,
             gv2_start_time(g, [self EXCEPT !.end_times = MapInsert(@, key, None)],
                            key, ord))

gv2_start_time(g, self, key, ord) ==
    IF key \in DOMAIN self.start_times
    THEN [view |-> self, res |-> self.start_times[key], at |-> ""]
    ELSE IF key \notin DOMAIN g
    THEN [view |-> [self EXCEPT !.start_times = MapInsert(@, key, None)],
          res |-> None, at |-> "get_incoming: invalid key."]
    ELSE gv2_start_done(key,
             gv2_fold(g, [self EXCEPT !.start_times = MapInsert(@, key, None)],
                      IterOrder(g[key].incoming, ord), ord, Some(0)))

\* .fold(Some(0), |max_time, end_time| Some(max_time?.max(end_time?))): every
\* element is visited, also after the accumulator has become None
gv2_fold(g, self, todo, ord, acc) ==
    IF todo = <<>> THEN [view |-> self, res |-> acc, at |-> ""]
    ELSE gv2_fold_next(g, Tail(todo), ord, acc,
                       gv2_end_time(g, self, Head(todo), ord))

gv2_fold_next(g, rest, ord, acc, e) ==
    IF e.at # "" THEN e
    ELSE gv2_fold(g, e.view, rest, ord,
                  IF acc = None \/ e.res = None THEN None
                  ELSE IF e.res[1] >= acc[1] THEN e.res ELSE acc)

\* one call of end_time or start_time on the GraphView, with the key of a node
GvQuery(fn, key, ord) ==
    /\ graph_panicked = ""
    /\ key \in DOMAIN graph
    /\ \E r \in {IF fn = "end_time" THEN gv_end_time(graph, gv, key, ord, {})
                 ELSE gv_start_time(graph, gv, key, ord, {})} :
          /\ gv' = r.view
          /\ gv_q' = [view |-> "GraphView", fn |-> fn, key |-> key,
                      res |-> r.res, at |-> r.at]
          /\ graph_panicked' = r.at
    /\ UNCHANGED <<gv2, graph, issued, graph_op, NotGraph>>

\* one call of end_time or start_time on the GraphView2, with the key of a node
Gv2Query(fn, key, ord) ==
    /\ graph_panicked = ""
    /\ key \in DOMAIN graph
    /\ \E r \in {IF fn = "end_time" THEN gv2_end_time(graph, gv2, key, ord)
                 ELSE gv2_start_time(graph, gv2, key, ord)} :
          /\ gv2' = r.view
          /\ gv_q' = [view |-> "GraphView2", fn |-> fn, key |-> key,
                      res |-> r.res, at |-> r.at]
          /\ graph_panicked' = r.at
    /\ UNCHANGED <<gv, graph, issued, graph_op, NotGraph>>

NextGraphView ==
    \/ NextGraph
    \/ \E fn \in {"end_time", "start_time"}, key \in Keys, ord \in Orders :
          GvQuery(fn, key, ord)

NextGraphView2 ==
    \/ NextGraph
    \/ \E fn \in {"end_time", "start_time"}, key \in Keys, ord \in Orders :
          Gv2Query(fn, key, ord)

\* a graph built by any sequence of calls, and a GraphView queried on it
SpecGraphView == Init /\ [][NextGraphView]_vars

\* a graph built by any sequence of calls, and a GraphView2 queried on it
SpecGraphView2 == Init /\ [][NextGraphView2]_vars

\* ------------------------------------------------------------- memoize.rs
\* A call works on [cache, log]: the HashMap and the cache.insert calls made
\* so far, <<key, value>> each; it returns [cache, log, res].
FibArgs == 0 .. NumFibArgs

RECURSIVE fib_naive(_)
fib_naive(arg) ==
    IF arg = 0 THEN 0
    ELSE IF arg = 1 THEN 1
    ELSE fib_naive(arg - 1) + fib_naive(arg - 2)

\* the match arms 0 => 0 and 1 => 1: nothing is called
Returned(st, result) == [cache |-> st.cache, log |-> st.log, res |-> result]

\* left + right, the left operand evaluated first
Plus(left_res, right) == [right EXCEPT !.res = left_res + @]

\* cache.insert(arg, result.clone()) with arg + 1 for the key
CacheInsertNextKey(arg, r) ==
    [cache |-> MapInsert(r.cache, arg + 1, r.res),
     log |-> Append(r.log, <<arg + 1, r.res>>), res |-> r.res]

\* cache.insert(arg, result.clone()); result
CacheInsert(arg, r) ==
    [cache |-> MapInsert(r.cache, arg, r.res),
     log |-> Append(r.log, <<arg, r.res>>), res |-> r.res]

RECURSIVE fib_memo(_, _)

fib_memo_rest(left, arg) == Plus(left.res, fib_memo(left, arg - 2))

fib_memo(st, arg) ==
    IF arg \in DOMAIN st.cache THEN Returned(st, st.cache[arg])
    ELSE CacheInsert(arg,
            IF arg = 0 THEN Returned(st, 0)
            ELSE IF arg = 1 THEN Returned(st, 1)
            ELSE fib_memo_rest(fib_memo(st, arg - 1), arg))

\* A function pointer or an FnMut is the name of what it points to; call
\* (defined below) is the call through it.
RECURSIVE call(_, _, _)

\* memoize(cache, func, arg)
memoize(st, func, arg) ==
    IF arg \in DOMAIN st.cache THEN Returned(st, st.cache[arg])
    ELSE CacheInsert(arg, call(func, st, arg))

\* the second operand with n - 1 again instead of arg - 2
fib_memo2_rest_again(left, arg) ==
    Plus(left.res, memoize(left, "fib_memo2", arg - 1))

fib_memo2_rest(left, arg) == Plus(left.res, memoize(left, "fib_memo2", arg - 2))

fib_memo2(st, arg) ==
    IF arg = 0 THEN Returned(st, 0)
    ELSE IF arg = 1 THEN Returned(st, 1)
    ELSE fib_memo2_rest(memoize(st, "fib_memo2", arg - 1), arg)

\* fib_open(recurse, arg): recurse is the FnMut it is given, a NoCache or a
\* HashCache, called through call_mut
fib_open_rest(recurse, left, arg) == Plus(left.res, call(recurse, left, arg - 2))

fib_open(recurse, st, arg) ==
    IF arg = 0 THEN Returned(st, 0)
    ELSE IF arg = 1 THEN Returned(st, 1)
    ELSE fib_open_rest(recurse, call(recurse, st, arg - 1), arg)

\* NoCache(fib_open): call_mut calls the function with the NoCache itself
NoCache_call_mut(st, arg) == fib_open("NoCache", st, arg)

\* HashCache::from_func(fib_open): call_mut looks arg up in self.data and
\* calls self.func with the HashCache itself when it is not there
HashCache_call_mut(st, arg) ==
    IF arg \in DOMAIN st.cache THEN Returned(st, st.cache[arg])
    ELSE CacheInsert(arg, fib_open("HashCache", st, arg))

call(f, st, arg) ==
    IF f = "fib_memo2" THEN fib_memo2(st, arg)
    ELSE IF f = "HashCache" THEN HashCache_call_mut(st, arg)
    ELSE NoCache_call_mut(st, arg)

\* a cache as a call finds it
Entering(cache) == [cache |-> cache, log |-> <<>>]

NotMemo ==
    <<avl_vars, rc_vars, view_vars, pd_vars, fn_vars, graph_vars, list_vars>>

MemoCalled(fn, arg, r) ==
    /\ memo_op' = [fn |-> fn, arg |-> arg]
    /\ memo_res' = r.res
    /\ memo_log' = r.log
    /\ UNCHANGED NotMemo

\* fib_memo(&mut cache, arg) on the cache of the calls before
CallFibMemo(arg) ==
    /\ fm_cache' = fib_memo(Entering(fm_cache), arg).cache
    /\ MemoCalled("fib_memo", arg, fib_memo(Entering(fm_cache), arg))
    /\ UNCHANGED <<mz_cache, hc_data>>

\* memoize(&mut cache, fib_memo2, arg) on the cache of the calls before
CallMemoize(arg) ==
    /\ mz_cache' = memoize(Entering(mz_cache), "fib_memo2", arg).cache
    /\ MemoCalled("memoize", arg, memoize(Entering(mz_cache), "fib_memo2", arg))
    /\ UNCHANGED <<fm_cache, hc_data>>

\* memoised(arg) on the HashCache of the calls before
CallHashCache(arg) ==
    /\ hc_data' = HashCache_call_mut(Entering(hc_data), arg).cache
    /\ MemoCalled("HashCache", arg, HashCache_call_mut(Entering(hc_data), arg))
    /\ UNCHANGED <<fm_cache, mz_cache>>

\* open(arg)
CallNoCache(arg) ==
    /\ MemoCalled("NoCache", arg, NoCache_call_mut(Entering(EmptyMap), arg))
    /\ UNCHANGED <<fm_cache, mz_cache, hc_data>>

\* fib_naive(arg)
CallFibNaive(arg) ==
    /\ MemoCalled("fib_naive", arg, Returned(Entering(EmptyMap), fib_naive(arg)))
    /\ UNCHANGED <<fm_cache, mz_cache, hc_data>>

\* HashMap::new() or HashCache::from_func(fib_open) for the calls that follow
NewCache(fn) ==
    /\ fm_cache' = IF fn = "fib_memo" THEN EmptyMap ELSE fm_cache
    /\ mz_cache' = IF fn = "memoize" THEN EmptyMap ELSE mz_cache
    /\ hc_data' = IF fn = "HashCache" THEN EmptyMap ELSE hc_data
    /\ MemoCalled("new", 0, Returned(Entering(EmptyMap), 0))

NextMemo ==
    \/ \E arg \in FibArgs : CallFibMemo(arg)
    \/ \E arg \in FibArgs : CallMemoize(arg)
    \/ \E arg \in FibArgs : CallHashCache(arg)
    \/ \E arg \in FibArgs : CallNoCache(arg)
    \/ \E arg \in FibArgs : CallFibNaive(arg)
    \/ \E fn \in {"fib_memo", "memoize", "HashCache"} : NewCache(fn)

\* any sequence of calls of the five functions, on new and on used caches
SpecMemo == Init /\ [][NextMemo]_vars

\* ------------------------------------------------ List (graph_map/cycles.rs)
ListData == {5, 6}

UnwrapNone == "called Option::unwrap() on a None value"

\* the cells that an Rc keeps alive: those reached from the roots along next
RECURSIVE Chain(_, _, _)
Chain(cells, e, n) ==
    IF e = 0 \/ n = 0 THEN {} ELSE {e} \cup Chain(cells, cells[e].next, n - 1)

Alive(cells, roots) == UNION {Chain(cells, r, Len(cells)) : r \in roots}

\* the Rcs a List holds
Fields(self) == {self.head, self.current, self.tail}

is_tail(cells, e) == cells[e].kind = "Tail"

is_head(cells, e) == cells[e].kind = "Head"

\* ListElem::next: Option of an address
next(cells, e) == IF cells[e].kind = "Tail" THEN None ELSE Some(cells[e].next)

\* ListElem::previous returns [res, at]: previous.upgrade().unwrap() panics
\* when the Weak is empty or the cell it points to has been dropped
previous(cells, roots, e) ==
    IF cells[e].kind = "Head" THEN [res |-> None, at |-> ""]
    ELSE IF cells[e].prev \in Alive(cells, roots)
    THEN [res |-> Some(cells[e].prev), at |-> ""]
    ELSE [res |-> None, at |-> UnwrapNone]

\* set_previous, set_next, connect and between work on [cells, at]
set_previous(hp, e, before) ==
    IF hp.at # "" THEN hp
    ELSE IF hp.cells[e].kind = "Head"
    THEN [hp EXCEPT !.at = "Tried to set previous of head"]
    ELSE [hp EXCEPT !.cells[e].prev = before]

set_next(hp, e, after) ==
    IF hp.at # "" THEN hp
    ELSE IF hp.cells[e].kind = "Tail"
    THEN [hp EXCEPT !.at = "Tried to set next of tail"]
    ELSE [hp EXCEPT !.cells[e].next = after]

connect(hp, first, other) == set_previous(set_next(hp, first, other), other, first)

\* the node is the cell at Len(hp.cells) + 1
between(hp, before, data, after) ==
    set_next(
        set_previous([hp EXCEPT !.cells = Append(@, NodeCell(before, data, after))],
                     after, Len(hp.cells) + 1),
        before, Len(hp.cells) + 1)

\* next.previous().unwrap() is the current element
next_previous_is_self(cells, roots, self) ==
    IF next(cells, self.current) = None THEN [res |-> TRUE, at |-> ""]
    ELSE LET p == previous(cells, roots, next(cells, self.current)[1])
         IN  IF p.at # "" THEN [res |-> FALSE, at |-> p.at]
             ELSE IF p.res = None THEN [res |-> FALSE, at |-> UnwrapNone]
             ELSE [res |-> p.res[1] = self.current, at |-> ""]

\* previous.next().unwrap() is the current element
previous_next_is_self(cells, roots, self) ==
    LET p == previous(cells, roots, self.current)
    IN  IF p.at # "" THEN [res |-> FALSE, at |-> p.at]
        ELSE IF p.res = None THEN [res |-> TRUE, at |-> ""]
        ELSE IF next(cells, p.res[1]) = None THEN [res |-> FALSE, at |-> UnwrapNone]
        ELSE [res |-> next(cells, p.res[1])[1] = self.current, at |-> ""]

\* List::invariant returns [res, at]
invariant(cells, roots, self) ==
    LET np == next_previous_is_self(cells, roots, self)
        pn == previous_next_is_self(cells, roots, self)
    IN  IF np.at # "" THEN np
        ELSE IF pn.at # "" THEN pn
        ELSE [res |-> /\ is_head(cells, self.head) /\ is_tail(cells, self.tail)
                      /\ np.res /\ pn.res,
              at |-> ""]

\* A call returns [cells, self, at, ret]: ret is the List a split hands back.
Done(cells, self) == [cells |-> cells, self |-> self, at |-> "", ret |-> None]

Panicked(cells, self, at) == [cells |-> cells, self |-> self, at |-> at, ret |-> None]

OnHeap(hp, self) == [cells |-> hp.cells, self |-> self, at |-> hp.at, ret |-> None]

\* debug_assert!(self.invariant()): evaluated in a debug build only; others
\* are the Rcs held outside the list while it is evaluated
debug_assert(dbg, st, others) ==
    IF st.at # "" \/ ~dbg THEN st
    ELSE LET inv == invariant(st.cells, others \cup Fields(st.self), st.self)
         IN  IF inv.at # "" THEN [st EXCEPT !.at = inv.at]
             ELSE IF ~inv.res
             THEN [st EXCEPT !.at = "assertion failed: self.invariant()"]
             ELSE st

advance(dbg, cells, self, others) ==
    debug_assert(dbg,
        Done(cells, IF next(cells, self.current) = None THEN self
                    ELSE [self EXCEPT !.current = next(cells, self.current)[1]]),
        others)

retreat(dbg, cells, self, others) ==
    LET p == previous(cells, others \cup Fields(self), self.current)
    IN  IF p.at # "" THEN Panicked(cells, self, p.at)
        ELSE debug_assert(dbg,
                 Done(cells, IF p.res = None THEN self
                             ELSE [self EXCEPT !.current = p.res[1]]),
                 others)

insert_after(dbg, cells, self, others, data) ==
    debug_assert(dbg,
        IF next(cells, self.current) = None THEN Done(cells, self)
        ELSE OnHeap(between([cells |-> cells, at |-> ""], self.current, data,
                            next(cells, self.current)[1]), self),
        others)

insert_before(dbg, cells, self, others, data) ==
    LET p == previous(cells, others \cup Fields(self), self.current)
    IN  IF p.at # "" THEN Panicked(cells, self, p.at)
        ELSE debug_assert(dbg,
                 IF p.res = None THEN Done(cells, self)
                 ELSE OnHeap(between([cells |-> cells, at |-> ""], p.res[1],
                                     data, self.current), self),
                 others)

\* || List::new(): a new List for the result, self untouched and not checked
split_nothing(cells, self) ==
    [cells |-> List_new(cells).cells, self |-> self, at |-> "",
     ret |-> Some(List_new(cells).self)]

\* the new tail is cell Len(cells) + 1, the new head cell Len(cells) + 2
split_after(dbg, cells, self, others) ==
    IF next(cells, self.current) = None THEN split_nothing(cells, self)
    ELSE LET after == next(cells, self.current)[1]
             hp == connect([cells |-> new_tail(cells), at |-> ""],
                           self.current, Len(cells) + 1)
         IN  debug_assert(dbg,
                 [cells |-> IF hp.at = "" THEN new_head(hp.cells, after)
                            ELSE hp.cells,
                  self |-> [self EXCEPT !.tail = Len(cells) + 1],
                  at |-> hp.at,
                  ret |-> Some([head |-> Len(cells) + 2,
                                current |-> Len(cells) + 2,
                                tail |-> self.tail])],
                 others \cup {after, self.tail, Len(cells) + 2})

split_before(dbg, cells, self, others) ==
    LET p == previous(cells, others \cup Fields(self), self.current)
        hp == connect([cells |-> new_tail(cells), at |-> ""],
                      p.res[1], Len(cells) + 1)
    IN  IF p.at # "" THEN Panicked(cells, self, p.at)
        ELSE IF p.res = None THEN split_nothing(cells, self)
        ELSE debug_assert(dbg,
                 [cells |-> IF hp.at = "" THEN new_head(hp.cells, self.current)
                            ELSE hp.cells,
                  self |-> [self EXCEPT !.head = Len(cells) + 2],
                  at |-> hp.at,
                  ret |-> Some([head |-> self.head, current |-> self.head,
                                tail |-> Len(cells) + 1])],
                 others \cup {p.res[1], self.head, Len(cells) + 1})

\* the Rcs held by the Lists that earlier splits returned
KeptRoots == UNION {Fields(l) : l \in kept}

NotList ==
    <<avl_vars, rc_vars, view_vars, pd_vars, fn_vars, graph_vars, memo_vars>>

\* the call has been made; the caller keeps the List it got back, or drops it
ListCalled(op, v, r, keep) ==
    /\ elems' = r.cells
    /\ list' = r.self
    /\ list_panicked' = r.at
    /\ kept' = IF keep /\ r.at = "" /\ r.ret # None THEN kept \cup {r.ret[1]}
               ELSE kept
    /\ list_op' = [op |-> op, v |-> v, on |-> elems[list.current].kind,
                   cur |-> list.current]
    /\ UNCHANGED <<debug, NotList>>

Advance ==
    /\ list_panicked = ""
    /\ ListCalled("advance", 0, advance(debug, elems, list, KeptRoots), FALSE)

Retreat ==
    /\ list_panicked = ""
    /\ ListCalled("retreat", 0, retreat(debug, elems, list, KeptRoots), FALSE)

InsertAfter(data) ==
    /\ list_panicked = ""
    /\ Len(elems) + 1 <= MaxCells
    /\ ListCalled("insert_after", data,
                  insert_after(debug, elems, list, KeptRoots, data), FALSE)

InsertBefore(data) ==
    /\ list_panicked = ""
    /\ Len(elems) + 1 <= MaxCells
    /\ ListCalled("insert_before", data,
                  insert_before(debug, elems, list, KeptRoots, data), FALSE)

SplitAfter(keep) ==
    /\ list_panicked = ""
    /\ Len(elems) + 2 <= MaxCells
    /\ ListCalled("split_after", 0,
                  split_after(debug, elems, list, KeptRoots), keep)

SplitBefore(keep) ==
    /\ list_panicked = ""
    /\ Len(elems) + 2 <= MaxCells
    /\ ListCalled("split_before", 0,
                  split_before(debug, elems, list, KeptRoots), keep)

NextList ==
    \/ Advance
    \/ Retreat
    \/ \E data \in ListData : InsertAfter(data)
    \/ \E data \in ListData : InsertBefore(data)
    \/ \E keep \in BOOLEAN : SplitAfter(keep)
    \/ \E keep \in BOOLEAN : SplitBefore(keep)

\* List::new() in a debug or in a release build
ListInit ==
    /\ AvlInit /\ RcInit /\ ViewInit /\ PdInit /\ FnIdle
    /\ GraphInit /\ MemoInit
    /\ ListNew
    /\ debug \in BOOLEAN

\* any sequence of calls on a new List
SpecList == ListInit /\ [][NextList]_vars

\* ================================================================ claims
RECURSIVE Nodes(_)
Nodes(t) == IF t = Leaf THEN {} ELSE {t} \cup Nodes(t[1]) \cup Nodes(t[3])

RECURSIVE Values(_)
Values(t) == IF t = Leaf THEN {} ELSE {t[2]} \cup Values(t[1]) \cup Values(t[3])

Ascending(s) == \A i \in 1 .. (Len(s) - 1) : s[i] < s[i + 1]

Min(S) == CHOOSE x \in S : \A y \in S : x <= y
Max(S) == CHOOSE x \in S : \A y \in S : x >= y

\* s with its elements equal to v left out
RECURSIVE Without(_, _)
Without(s, v) ==
    IF s = <<>> THEN <<>>
    ELSE IF s[1] = v THEN Without(Tail(s), v)
    ELSE <<s[1]>> \o Without(Tail(s), v)

\* C1: after every insert or delete call, every node of the tree has
\* |height(left) - height(right)| <= 1.  (Stated as claimed; the code breaks it.)
C1_BalancedAtEveryNode ==
    \A n \in Nodes(tree) : abs(height(n[1]) - height(n[3])) <= 1

\* C2: after every insert or delete call, at every node all values of the left
\* subtree are smaller and all values of the right subtree are greater than the
\* node's value, so that no value is stored twice.
C2_SearchTreeOrder ==
    \A n \in Nodes(tree) :
        /\ \A x \in Values(n[1]) : x < n[2]
        /\ \A x \in Values(n[3]) : x > n[2]

\* C2 witness: a delete call moved another value into the root of a tree that
\* still holds five values or more.
C2_Witness ==
    /\ lastOp.op = "delete"
    /\ Cardinality(Values(tree)) >= 5
    /\ prev # Leaf
    /\ tree # Leaf
    /\ tree[2] # prev[2]

\* C3: after every insert or delete call, the cached height of every node is
\* 1 + max(height(left), height(right)), Leaf having height 0.  (Stated as
\* claimed; the code breaks it.)
C3_CachedHeightsCorrect ==
    \A n \in Nodes(tree) : n[4] = 1 + max(height(n[1]), height(n[3]))

\* C4: no insert or delete call panics: no assert!(is_avl()) fails, unwrap
\* meets no Leaf, balance finds the child it expects.  (Stated as claimed; the
\* code breaks it.)
C4_NoCallPanics == panicked = ""

\* C5: after inserting the elements of a set S in any order, with repetitions,
\* for_each visits exactly the elements of S, each once, in ascending order.
C5_InOrderIsInsertedSet ==
    /\ Ascending(for_each(tree))
    /\ Range(for_each(tree)) = stored

\* C5 witness: six values or more went in, rotations kept the height at 3, and
\* the last call repeated a value that was already stored.
C5_Witness ==
    /\ Len(for_each(tree)) >= 6
    /\ lastOp.op = "insert"
    /\ lastOp.v \in Values(prev)
    /\ height(tree) = 3

\* C6: delete(v) of a stored value v yields a tree whose in-order sequence is
\* the previous in-order sequence with exactly v removed.  (Stated as claimed;
\* the code breaks it.)
C6_DeleteRemovesExactlyV ==
    (lastOp.op = "delete" /\ lastOp.v \in Values(prev))
        => /\ for_each(tree) = Without(for_each(prev), lastOp.v)
           /\ Len(for_each(tree)) = Len(for_each(prev)) - 1

\* C7: delete(v) of a value v that is not stored leaves the tree unchanged:
\* same shape, same values at the same nodes, same cached heights.
C7_DeleteAbsentUnchanged ==
    (lastOp.op = "delete" /\ lastOp.v \notin Values(prev)) => tree = prev

\* C7 witness: a value that is not stored was deleted from a tree of height 3
\* whose search for it went below the root.
C7_Witness ==
    /\ lastOp.op = "delete"
    /\ lastOp.v \notin Values(prev)
    /\ height(prev) >= 3
    /\ panicked = ""

\* C8: Tree::delete(v) returns true if and only if v was stored immediately
\* before the call, whatever the number of children of the node that holds v.
\* (Stated as claimed; the code breaks it.)
C8_TreeDeleteReportsPresence ==
    rc_lastOp.op = "delete" => (rc_ret <=> rc_lastOp.v \in Values(rc_prev))

\* C9: inserting a value that was just inserted (so that it is stored) changes
\* nothing: the tree, hence its in-order sequence, stays as it was.
C9_InsertTwiceSameAsOnce ==
    (lastOp.op = "insert" /\ lastOp.v \in Values(prev))
        => /\ tree = prev
           /\ for_each(tree) = for_each(prev)
           /\ panicked = ""

\* C9 witness: a stored value was inserted again into a tree of height 3 or
\* more, below a node whose subtrees differ in height.
C9_Witness ==
    /\ lastOp.op = "insert"
    /\ lastOp.v \in Values(prev)
    /\ height(prev) >= 3
    /\ height(prev[1]) # height(prev[3])
    /\ lastOp.v # prev[2]

\* C10: get_leftmost returns the minimum and get_rightmost the maximum of the
\* values inserted and not since deleted, and both return None when there is
\* none.  (Stated as claimed; the code breaks it.)
C10_ExtremesAreMinMax ==
    /\ get_leftmost(tree) = (IF stored = {} THEN None ELSE Some(Min(stored)))
    /\ get_rightmost(tree) = (IF stored = {} THEN None ELSE Some(Max(stored)))

\* C11: go_left and go_right return false exactly when the cursor is at a
\* Leaf, go_up returns false exactly when the ancestor stack is empty, and a
\* call that returns false leaves the current node and the stack as they were.
C11_FalseExactlyAtTheEdge ==
    /\ view_op \in {"go_left", "go_right"}
          => (view_ret = FALSE <=> deref(tree, view_prev.tree) = Leaf)
    /\ view_op = "go_up"
          => (view_ret = FALSE <=> view_prev.stack = <<>>)
    /\ (view_op # "new" /\ view_ret = FALSE)
          => (view.tree = view_prev.tree /\ view.stack = view_prev.stack)

\* a go_right that was refused at a Leaf two levels below the root
C11_Witness ==
    /\ view_op = "go_right"
    /\ view_ret = FALSE
    /\ Len(view.stack) = 2
    /\ deref(tree, view.tree) = Leaf

\* the ancestors of a node, root first
Ancestors(ref) == [i \in 1 .. Len(ref) |-> SubSeq(ref, 1, i - 1)]

Reverse(s) == [i \in 1 .. Len(s) |-> s[Len(s) + 1 - i]]

\* the nodes the cursor visits while go_up is called until it returns false
RECURSIVE Ascend(_)
Ascend(v) ==
    IF go_up(v).ret THEN <<go_up(v).view.tree>> \o Ascend(go_up(v).view)
    ELSE <<>>

\* the cursor after the go_up that returned false
RECURSIVE Top(_)
Top(v) == IF go_up(v).ret THEN Top(go_up(v).view) ELSE go_up(v).view

MainTree == Build([i \in 1 .. MainCount |-> i - 1]).t

ThreeLefts(root) ==
    /\ go_left(root, AVLView_new).ret
    /\ go_left(root, go_left(root, AVLView_new).view).ret
    /\ go_left(root, go_left(root, go_left(root, AVLView_new).view).view).ret

\* C12: a cursor that is k levels below the root after successful go_left /
\* go_right calls is brought back by k go_up calls that each return true and
\* visit its ancestors nearest first, ending at the root; one more go_up
\* returns false and leaves the cursor at the root.  On the tree main builds
\* from 0 .. 9 three go_left calls from the root all return true.
C12_UpUndoesTheDescent ==
    /\ Ascend(view) = Reverse(Ancestors(view.tree))
    /\ Top(view) = AVLView_new
    /\ tree = MainTree => ThreeLefts(tree)

\* main's tree after its three go_left calls
C12_Witness ==
    /\ tree = MainTree
    /\ view_op = "go_left"
    /\ view_ret = TRUE
    /\ view.tree = <<1, 1, 1>>
    /\ Len(view.stack) = 3

\* C13: after any sequence of insert calls on an empty tree, find(v) is true
\* for every value that was inserted and false for every value that never
\* was, on the Box-owned TreeBox and on the Rc-shared Tree alike.
C13_FindIsMembership ==
    \A v \in PdVals :
        /\ TreeBox_find(pd_box, v) <=> v \in pd_set
        /\ RcTree_find(pd_rc, v) <=> v \in pd_set

\* three values in both trees, inserted so that the root has two children,
\* with a clone taken before the last insert
C13_Witness ==
    /\ pd_op.op = "insert"
    /\ Cardinality(pd_set) = 3
    /\ pd_box # <<>> /\ pd_box[1] # <<>> /\ pd_box[3] # <<>>
    /\ pd_clone # <<>> /\ pd_clone # pd_rc

\* the least number of nodes of an AVL tree of height h
RECURSIVE MinNodes(_)
MinNodes(h) ==
    IF h <= 0 THEN 0
    ELSE IF h = 1 THEN 1
    ELSE MinNodes(h - 1) + MinNodes(h - 2) + 1

\* C14: a tree that stores n values has a cached root height h with
\* n >= N(h), where N(0) = 0, N(1) = 1 and N(h) = N(h-1) + N(h-2) + 1.
C14_HeightIsLogarithmic ==
    Cardinality(Values(tree)) >= MinNodes(height(tree))

\* the height of a tree counted from its shape, not read from the cache
RECURSIVE TrueHeight(_)
TrueHeight(t) ==
    IF t = <<>> THEN 0 ELSE max(TrueHeight(t[1]), TrueHeight(t[3])) + 1

\* C15: balance, called on a node whose subtrees have the full AVL property
\* and heights that differ by at most 2, returns with the node balanced, its
\* cached height correct and the in-order sequence unchanged, in each of the
\* cases left-left, left-right, right-left and right-right.
C15_BalanceRepairsTheNode ==
    fn_op = "balance" =>
        /\ fn_out.at = ""
        /\ fn_out.t # Leaf
        /\ abs(TrueHeight(fn_out.t[1]) - TrueHeight(fn_out.t[3])) <= 1
        /\ fn_out.t[4] = TrueHeight(fn_out.t)
        /\ for_each(fn_out.t) = for_each(fn_in)

\* a node with the given children whose cached height is counted from them
Rebuilt(l, v, r) == <<l, v, r, max(TrueHeight(l), TrueHeight(r)) + 1>>

\* C16: rotate_left on a node N with left subtree L and right child C, whose
\* subtrees are M and R, yields a node holding C's value whose left child
\* holds N's value with subtrees L and M and whose right subtree is R; both
\* cached heights are recomputed and the in-order sequence is unchanged.
\* rotate_right is the mirror image.
C16_RotationShape ==
    /\ fn_op = "rotate_left" =>
          /\ fn_out.at = ""
          /\ fn_out.t = Rebuilt(Rebuilt(fn_in[1], fn_in[2], fn_in[3][1]),
                                fn_in[3][2], fn_in[3][3])
          /\ for_each(fn_out.t) = for_each(fn_in)
    /\ fn_op = "rotate_right" =>
          /\ fn_out.at = ""
          /\ fn_out.t = Rebuilt(fn_in[1][1], fn_in[1][2],
                                Rebuilt(fn_in[1][3], fn_in[2], fn_in[3]))
          /\ for_each(fn_out.t) = for_each(fn_in)

\* remove_leftmost / remove_rightmost of AVL did what is claimed
C19_AvlRemoveExtreme ==
    /\ fn_op \in {"remove_leftmost", "remove_rightmost"} => fn_out.at = ""
    /\ (fn_op \in {"remove_leftmost", "remove_rightmost"} /\ fn_in = Leaf)
          => (fn_out.res = None /\ fn_out.t = Leaf)
    /\ (fn_op = "remove_leftmost" /\ fn_in # Leaf)
          => /\ fn_out.res = Some(Min(Values(fn_in)))
             /\ Values(fn_out.t) = Values(fn_in) \ {Min(Values(fn_in))}
             /\ is_avl_full(fn_out.t)
    /\ (fn_op = "remove_rightmost" /\ fn_in # Leaf)
          => /\ fn_out.res = Some(Max(Values(fn_in)))
             /\ Values(fn_out.t) = Values(fn_in) \ {Max(Values(fn_in))}
             /\ is_avl_full(fn_out.t)

\* remove_smallest of TreeBox and of the Rc Tree did what is claimed
C19_PdRemoveSmallest ==
    /\ (pd_op.op = "remove_smallest" /\ pd_prev = {})
          => /\ pd_res = [box |-> None, rc |-> None]
             /\ pd_box = <<>> /\ pd_rc = <<>>
    /\ (pd_op.op = "remove_smallest" /\ pd_prev # {})
          => /\ pd_res = [box |-> Some(Min(pd_prev)), rc |-> Some(Min(pd_prev))]
             /\ Values(pd_box) = pd_prev \ {Min(pd_prev)}
             /\ Values(pd_rc) = pd_prev \ {Min(pd_prev)}

\* C19: remove_leftmost / remove_rightmost (AVL) and remove_smallest (TreeBox,
\* Tree) return None on an empty tree and leave it empty; on a non-empty
\* valid tree they return the minimum (remove_rightmost: the maximum), the
\* remaining tree stores exactly the other values, and the AVL tree still
\* has the full AVL property.
C19_RemoveExtreme == C19_AvlRemoveExtreme /\ C19_PdRemoveSmallest

\* the node of t that holds v
RECURSIVE NodeOf(_, _)
NodeOf(t, v) ==
    IF t = <<>> THEN <<>>
    ELSE IF v < t[2] THEN NodeOf(t[1], v)
    ELSE IF v > t[2] THEN NodeOf(t[3], v)
    ELSE t

\* r is what the claim says is left in place of the node n holding the
\* deleted value, before the node is rebalanced
Promoted(n, r) ==
    IF n[3] # Leaf
    THEN /\ r # Leaf
         /\ r[2] = Min(Values(n[3]))
         /\ r[1] = n[1]
         /\ Values(r[3]) = Values(n[3]) \ {r[2]}
    ELSE IF n[1] # Leaf
    THEN /\ r # Leaf
         /\ r[2] = Max(Values(n[1]))
         /\ r[3] = Leaf
         /\ Values(r[1]) = Values(n[1]) \ {r[2]}
    ELSE r = Leaf

\* C17: when delete finds the value at a node, the node's value is replaced
\* by the leftmost value of its right subtree if that is non-empty, else by
\* the rightmost value of its left subtree if that is non-empty, and the node
\* becomes a Leaf when both are empty; the promoted value is removed from
\* the subtree it came from.
C17_DeletePromotesNeighbour ==
    (lastOp.op = "delete" /\ lastOp.v \in Values(prev)) =>
        /\ delete_found(NodeOf(prev, lastOp.v),
                        remove_leftmost(NodeOf(prev, lastOp.v)[3])).at = ""
        /\ Promoted(NodeOf(prev, lastOp.v),
                    delete_found(NodeOf(prev, lastOp.v),
                                 remove_leftmost(NodeOf(prev, lastOp.v)[3])).t)

\* C18: insert on a Leaf produces a node with two empty children and cached
\* height 1, and insert of a value equal to one already stored returns with
\* the whole tree unchanged.
C18_InsertOnLeafAndOnEqual ==
    /\ (lastOp.op = "insert" /\ prev = Leaf)
          => (tree = <<Leaf, lastOp.v, Leaf, 1>> /\ panicked = "")
    /\ (lastOp.op = "insert" /\ NodeOf(prev, lastOp.v) # Leaf)
          => (tree = prev /\ panicked = "")

\* a value other than 0 was inserted into an empty tree
C18_Witness ==
    /\ lastOp.op = "insert" /\ lastOp.v # 0
    /\ prev = Leaf
    /\ tree = singleton(lastOp.v)
    /\ stored = {lastOp.v}

\* a stored value that is not at the root was inserted again
C18_WitnessEqual ==
    /\ lastOp.op = "insert" /\ tree = prev
    /\ height(tree) >= 2 /\ tree[2] # lastOp.v

\* C20: after every insert and delete on the unbalanced Tree the recursive
\* is_tree_full holds, no assert!(self.is_tree()) has failed, and
\* get_leftmost / get_rightmost return the minimum / maximum of the values
\* inserted and not since deleted (None when there are none).
C20_TreeStaysASearchTree ==
    /\ Tree_is_tree_full(rc_tree)
    /\ rc_panicked = ""
    /\ Tree_get_leftmost(rc_tree) =
          IF rc_stored = {} THEN None ELSE Some(Min(rc_stored))
    /\ Tree_get_rightmost(rc_tree) =
          IF rc_stored = {} THEN None ELSE Some(Max(rc_stored))

\* delete took the smallest value out of a node with two subtrees, the right
\* one with a right child of its own
C20_Witness ==
    /\ rc_lastOp.op = "delete"
    /\ rc_prev # <<>> /\ rc_prev[2] = rc_lastOp.v
    /\ rc_prev[1] = <<>>
    /\ rc_prev[3] # <<>> /\ rc_prev[3][1] = <<>> /\ rc_prev[3][3] # <<>>
    /\ Cardinality(rc_stored) >= 2
    /\ rc_tree = rc_prev[3]

\* C21: an AVLView and an AVLListView opened on the same tree and given the
\* same go_left / go_right / go_up calls return the same bool at every call,
\* and after every call the AVLView's current node is the node at the head
\* of the AVLListView and value() agrees.
C21_ViewsAgree ==
    /\ view_ret = lview_ret
    /\ view.tree = head(lview)
    /\ AVLView_value(tree, view) = AVLListView_value(tree, lview)

\* both views came back up to a node below the root that holds a value
C21_Witness ==
    /\ view_op = "go_up" /\ view_ret /\ lview_ret
    /\ Len(view.stack) >= 1
    /\ lview[1] = "Cons"
    /\ AVLListView_value(tree, lview) # None

\* ------------------------------------------------------------ C22, C23
\* the edges recorded in the adjacency sets of the nodes of g
Edges(g) ==
    {e \in Keys \X Keys :
        \/ e[1] \in DOMAIN g /\ e[2] \in g[e[1]].outgoing
        \/ e[2] \in DOMAIN g /\ e[1] \in g[e[2]].incoming}

\* the nodes with an edge into k
EdgesInto(g, k) == {j \in DOMAIN g : <<j, k>> \in Edges(g)}

\* the keys from which k is reached along at least one and at most n edges
RECURSIVE DependsWithin(_, _, _)
DependsWithin(g, k, n) ==
    IF n = 0 THEN {}
    ELSE LET near == {j \in Keys : <<j, k>> \in Edges(g)}
         IN  near \cup UNION {DependsWithin(g, j, n - 1) : j \in near}

DependsOn(g, k) == DependsWithin(g, k, NumKeys)

OnCycle(g, k) == k \in DependsOn(g, k)

Acyclic(g) == \A k \in Keys : ~OnCycle(g, k)

\* k lies on a cycle or depends on a key that lies on one
CycleDependent(g, k) == \E c \in DependsOn(g, k) \cup {k} : OnCycle(g, c)

\* the times of the critical-path definition, on keys that are not
\* CycleDependent
RECURSIVE ExpectedStart(_, _)
RECURSIVE ExpectedEnd(_, _)
ExpectedStart(g, k) ==
    IF EdgesInto(g, k) = {} THEN 0
    ELSE Max({ExpectedEnd(g, j) : j \in EdgesInto(g, k)})

ExpectedEnd(g, k) == ExpectedStart(g, k) + g[k].data

Expected(g, fn, k) ==
    IF fn = "end_time" THEN ExpectedEnd(g, k) ELSE ExpectedStart(g, k)

\* the graph of test::graph_view (main.rs 197-212), with the durations given
TestGraph(d1, d2, d3, d4, d5) ==
    add_edge(add_node(
      add_edge(add_node(
        add_edge(add_node(
          add_edge(add_node(add_node(Graph_new, 1, d1), 2, d2), 1, 2),
          3, d3), 2, 3),
        4, d4), 2, 4),
      5, d5), 4, 5)

NewView == [start_times |-> EmptyMap, end_times |-> EmptyMap]

\* view.start_time(&n5) then view.end_time(&n5) on the test's graph
TestStartThenEnd ==
    LET g == TestGraph(1, 2, 4, 8, 16)
        ord == <<1, 2, 3, 4, 5>>
        s == gv_start_time(g, NewView, 5, ord, {})
    IN  <<s.res, gv_end_time(g, s.view, 5, ord, {}).res>>

\* C22: on every acyclic graph a GraphView query returns, start_time(k) is the
\* maximum of end_time over the nodes with an edge into k (0 when there is
\* none) and end_time(k) is start_time(k) plus k's duration, for the value
\* returned and for every value in the memo tables, after any sequence of
\* queries; the test's graph gives start 11 and end 27.
C22_GraphViewTimes ==
    /\ TestStartThenEnd = <<11, 27>>
    /\ Acyclic(graph) =>
          /\ gv_q.view = "GraphView" =>
                /\ gv_q.at = ""
                /\ gv_q.res = Expected(graph, gv_q.fn, gv_q.key)
          /\ \A k \in DOMAIN gv.start_times :
                gv.start_times[k] = ExpectedStart(graph, k)
          /\ \A k \in DOMAIN gv.end_times :
                gv.end_times[k] = ExpectedEnd(graph, k)

\* C23: on every graph, cycles and self-loops included, a GraphView2 query
\* returns; it returns None exactly when its key lies on a cycle or depends on
\* a key that lies on a cycle, and otherwise Some of the critical-path time,
\* whatever was queried on the view before.
C23_GraphView2Times ==
    gv_q.view = "GraphView2" =>
        /\ gv_q.at = ""
        /\ gv_q.res = IF CycleDependent(graph, gv_q.key) THEN None
                      ELSE Some(Expected(graph, gv_q.fn, gv_q.key))

\* ------------------------------------------------------------ C25, C26
Caches == {fm_cache, mz_cache, hc_data}

\* C25: during and after any sequence of calls to fib_memo, memoize(fib_memo2)
\* and the HashCache of fib_open, every entry (k, v) of a cache, and every
\* entry a call inserted on its way, has v = fib_naive(k).
C25_CacheEntriesAreFib ==
    /\ \A cache \in Caches : \A k \in DOMAIN cache : cache[k] = fib_naive(k)
    /\ \A i \in 1 .. Len(memo_log) : memo_log[i][2] = fib_naive(memo_log[i][1])

\* a call that found its cache empty and filled it for every argument
C25_Witness ==
    /\ memo_op = [fn |-> "HashCache", arg |-> NumFibArgs]
    /\ Len(memo_log) = NumFibArgs + 1
    /\ DOMAIN hc_data = FibArgs
    /\ DOMAIN fm_cache = {1}

\* C26: for every argument, fib_memo, memoize(fib_memo2) and the HashCache of
\* fib_open, each on a new cache and on the cache the calls before have left,
\* NoCache(fib_open) and fib_naive return the same value; so does the call
\* just made.
C26_AllAgree ==
    /\ \A n \in FibArgs :
          /\ fib_memo(Entering(EmptyMap), n).res = fib_naive(n)
          /\ fib_memo(Entering(fm_cache), n).res = fib_naive(n)
          /\ memoize(Entering(EmptyMap), "fib_memo2", n).res = fib_naive(n)
          /\ memoize(Entering(mz_cache), "fib_memo2", n).res = fib_naive(n)
          /\ HashCache_call_mut(Entering(EmptyMap), n).res = fib_naive(n)
          /\ HashCache_call_mut(Entering(hc_data), n).res = fib_naive(n)
          /\ NoCache_call_mut(Entering(EmptyMap), n).res = fib_naive(n)
    /\ memo_op.fn \in {"fib_memo", "memoize", "HashCache", "NoCache", "fib_naive"}
          => memo_res = fib_naive(memo_op.arg)

\* a cache hit: memoize returns the largest argument's value with no insert,
\* from a cache that an earlier call filled
C26_Witness ==
    /\ memo_op = [fn |-> "memoize", arg |-> NumFibArgs]
    /\ memo_log = <<>>
    /\ NumFibArgs \in DOMAIN mz_cache
    /\ memo_res = fib_naive(NumFibArgs)
    /\ memo_res > NumFibArgs

\* ------------------------------------------------------------ C27, C28
\* the data of the Node cells from e to the tail
RECURSIVE DataFrom(_, _, _)
DataFrom(cells, e, n) ==
    IF e = 0 \/ n = 0 THEN <<>>
    ELSE (IF cells[e].kind = "Node" THEN <<cells[e].data>> ELSE <<>>)
         \o DataFrom(cells, cells[e].next, n - 1)

\* the elements of the list, read from head to tail
Elements(cells, self) == DataFrom(cells, self.head, Len(cells))

\* C27: starting from List::new(), after every call of advance, retreat,
\* insert_after, insert_before, split_after and split_before the call has
\* returned and List::invariant() evaluates to true without panicking.
C27_InvariantHolds ==
    list_op.op # "new" =>
        /\ list_panicked = ""
        /\ invariant(elems, KeptRoots \cup Fields(list), list)
              = [res |-> TRUE, at |-> ""]

\* main (cycles.rs 181-185): the calls it makes on its new list
MainCalls ==
    <<[op |-> "advance", v |-> 0], [op |-> "insert_before", v |-> 5],
      [op |-> "insert_before", v |-> 6]>>

\* the list of main after its first k calls, or where it panicked
RECURSIVE MainRun(_, _)
MainRun(dbg, k) ==
    IF k = 0 THEN Done(List_new(<<>>).cells, List_new(<<>>).self)
    ELSE LET before == MainRun(dbg, k - 1)
         IN  IF before.at # "" THEN before
             ELSE IF k = 1 THEN advance(dbg, before.cells, before.self, {})
             ELSE insert_before(dbg, before.cells, before.self, {}, MainCalls[k].v)

\* the program is where main is after its k-th call
AfterMainCall(k) ==
    /\ kept = {}
    /\ elems = MainRun(debug, k).cells
    /\ list = MainRun(debug, k).self
    /\ list_op.op = MainCalls[k].op
    /\ list_op.v = MainCalls[k].v

\* C28: insert_before(x) with the cursor on an element other than the head
\* links x immediately before that element, insert_after(x) with the cursor on
\* an element other than the tail links x immediately after it; main's calls
\* advance(), insert_before(5), insert_before(6) on a new list return without
\* a panic and leave the elements 5, 6; advance at the tail and retreat at
\* the head leave the cursor where it was.
C28_InsertLinksAndMain ==
    /\ list_op.op = "insert_before" /\ list_op.on # "Head" =>
          /\ list_panicked = ""
          /\ elems[Len(elems)].data = list_op.v
          /\ elems[Len(elems)].next = list_op.cur
          /\ elems[list_op.cur].prev = Len(elems)
          /\ elems[elems[Len(elems)].prev].next = Len(elems)
    /\ list_op.op = "insert_after" /\ list_op.on # "Tail" =>
          /\ list_panicked = ""
          /\ elems[Len(elems)].data = list_op.v
          /\ elems[Len(elems)].prev = list_op.cur
          /\ elems[list_op.cur].next = Len(elems)
          /\ elems[elems[Len(elems)].next].prev = Len(elems)
    /\ \A k \in 1 .. Len(MainCalls) :
          AfterMainCall(k) =>
              /\ list_panicked = ""
              /\ k = Len(MainCalls) => Elements(elems, list) = <<5, 6>>
    /\ list_op.op = "advance" /\ list_op.on = "Tail" => list.current = list_op.cur
    /\ list_op.op = "retreat" /\ list_op.on = "Head" => list.current = list_op.cur

\* C24: after any sequence of add_node, add_edge, remove_edge and remove_node
\* calls the adjacency sets are symmetric (b is in outgoing(a) exactly when a
\* is in incoming(b)) and closed (every key in an incoming or outgoing set is
\* the key of a node in the graph).
C24_AdjacencySymmetricAndClosed ==
    /\ \A a \in DOMAIN graph :
          /\ graph[a].outgoing \subseteq DOMAIN graph
          /\ graph[a].incoming \subseteq DOMAIN graph
    /\ \A a \in DOMAIN graph, b \in DOMAIN graph :
          b \in graph[a].outgoing <=> a \in graph[b].incoming
====
